---- MODULE Spec2Model ----
(***************************************************************************)
(* A model of node-red-contrib-machine-vision: the shared utility module   *)
(* (lib/vision-utils: rate limiter, request dispatchers, error             *)
(* classification, response normaliser) and the vision nodes built on it.  *)
(*                                                                         *)
(* Each component has its own variables and its own specification; a       *)
(* specification leaves the other components' variables at their initial   *)
(* values.                                                                 *)
(***************************************************************************)
EXTENDS Integers, Sequences, FiniteSets, TLC

(***************************************************************************)
(* Bounds of the model.                                                    *)
(***************************************************************************)
\* the clock (Date.now()) runs over 0..MaxTime
MaxTime == 2
\* windowMs arguments are drawn from 0..MaxWindow
MaxWindow == 1
\* maxRequests arguments are drawn from 0..MaxReq
MaxReq == 2
\* at most MaxCalls checkRateLimit calls are made on a key within one window
MaxCalls == 3

\* the rate limiter keys in use
Keys == {"k1", "k2"}

VARIABLES
    \* ---- rate limiter (vision-utils: rateLimiters, Date.now()) ----
    rateLimiters,   \* the Map key -> {count, resetAt}; a key is in its DOMAIN iff the Map has it
    now,            \* the value Date.now() returns
    \* ---- rate limiter, observation only ----
    win,            \* per key: the calls made since the call that opened the current window
    \* ---- one call of a dispatcher (callVisionAPI, callCameraAPI, callImageAPI) ----
    dPc,            \* "idle", "inflight" (awaiting axios), "settled" (the promise is settled)
    dCall,          \* the options of the call: api, apiConfig, node given, done given
    dError,         \* the axios error the call failed with (NoAxiosError if none)
    dStatus,        \* what node.status was last called with
    dErrors,        \* the messages node.error was called with, in order
    dDone,          \* the arguments done was called with, in order
    dHttp,          \* the number of HTTP requests handed to axios
    dOutcome,       \* the promise: "pending", resolved, or rejected with an error
    \* ---- one vision node and the input message it is handling ----
    nPc,            \* "none" (not constructed), "idle", "awaiting" (in callVisionAPI), "finished"
    nNode,          \* the node's type and configuration
    nMsg,           \* the input message being handled
    nPath,          \* how the handler ended: "rejected", "noconfig", "response", "failure"
    nResult,        \* response.data of the backend's reply
    nError,         \* the axios error of a failed request
    nStatus,        \* what node.status was last called with
    nErrors,        \* the messages node.error was called with for this input, in order
    nDone,          \* the arguments done was called with for this input, in order
    nSent,          \* the messages send was called with for this input, in order
    nHttp,          \* the number of HTTP requests made for this input
    \* ---- one call of a pure utility (validateROI, validateImageId, ...) ----
    uPc,            \* "idle" or "returned"
    uCall,          \* the function called and its arguments
    uResult,        \* what the call returned
    \* ---- one camera capture node: its auto-connect bootstrap and its close handler ----
    cPc,            \* "none" (not constructed), "off" (no auto-connect), "health", "connect"
                    \* (awaiting that request), "delay" (awaiting the timer), "ended"
    cNode,          \* the node's configuration as the constructor stores it
    cAttempt,       \* the loop variable `attempt' of connectCameraWithRetry
    cStatus,        \* what node.status was last called with
    cErrors,        \* the messages node.error was called with, in order
    cLog,           \* the messages node.log was called with, in order
    cTrace,         \* observation only: the attempts begun, the delays waited and the
                    \* successful connect of the bootstrap, in order
    cClose,         \* the close handler: "open" (not called), "disconnecting", "closed"
    \* ---- one image simulator node: its auto-trigger timer and its captures ----
    sPc,            \* "none" (not constructed), "open", "closed" (the close handler ran)
    sNode,          \* the node's configuration as the constructor stores it
    sIntervalId,    \* node.intervalId: 0 for null, else the id setInterval returned
    sTimers,        \* observation only: the ids of the interval timers that are active
    sCreated,       \* observation only: the number of setInterval calls made
    sStatus,        \* what node.status was last called with
    sPending,       \* the captures awaiting axios.post, by origin (input or timer)
    sCaptures,      \* the number of captureTestImage calls made
    sSent,          \* the number of messages sent
    sErrors,        \* the number of node.error calls
    sDone,          \* the number of done() calls
    sLast,          \* the handler that ran last: "none", "start", "stop", "other", "close"
    \* ---- one live preview node: its stream state, pending calls and timers ----
    lPc,            \* "none" (not constructed), "open", "closed" (the close handler ran)
    lCameraId,      \* node.cameraId
    lStreamActive,  \* node.streamActive
    lStreamUrl,     \* node.streamUrl, "" for null
    lStatus,        \* what node.status was last called with
    lSent,          \* the state messages sent, in order
    lErrors,        \* the number of node.error calls
    lTasks,         \* the backend calls being awaited, in the order they were made,
                    \* each with what its caller does once it settles
    lTimers,        \* the setTimeout callbacks not yet run, in the order they were set
    lDone,          \* the number of done calls of input handlers
    lInputs,        \* the number of inputs received
    \* ---- one roi-extract node and the input message it is handling ----
    rPc,            \* "none" (not constructed), "idle", "awaiting" (in callImageAPI), "finished"
    rNode,          \* the node's configuration: apiConfig, roi, roiMode
    rMsg,           \* the input message being handled
    rRequests,      \* the request bodies posted to the backend for this input, in order
    rStatus,        \* what node.status was last called with
    rErrors,        \* the messages node.error was called with for this input, in order
    rDone,          \* the arguments done was called with for this input, in order
    rSent,          \* the number of messages sent for this input
    eIssued,        \* number of inputs whose handler has reached its await
    eInFlight,      \* dispatches awaiting their response: records [id, node]
    eLoops,         \* handlers inside their send loop: records [id, node, i, objects]
    eRunning,       \* id of the handler holding the JavaScript thread, 0 = none
    eOut,           \* every message handed to send, in order, over all nodes
    gPc,            \* idle, raise (first while loop), lower (second), sent
    gRange,         \* node.angleRange
    gRotation,      \* obj.rotation of the reply
    gReference,     \* msg.reference_object, or its absence
    gAngle,         \* the local relativeAngle
    gPayload        \* the rotation keys of the payload handed to send

rlVars == <<rateLimiters, now, win>>

dVars == <<dPc, dCall, dError, dStatus, dErrors, dDone, dHttp, dOutcome>>

nVars == <<nPc, nNode, nMsg, nPath, nResult, nError, nStatus, nErrors, nDone, nSent, nHttp>>

uVars == <<uPc, uCall, uResult>>

cVars == <<cPc, cNode, cAttempt, cStatus, cErrors, cLog, cTrace, cClose>>

sVars == <<sPc, sNode, sIntervalId, sTimers, sCreated, sStatus, sPending, sCaptures, sSent, sErrors, sDone, sLast>>

lVars == <<lPc, lCameraId, lStreamActive, lStreamUrl, lStatus, lSent, lErrors, lTasks, lTimers, lDone, lInputs>>

rVars == <<rPc, rNode, rMsg, rRequests, rStatus, rErrors, rDone, rSent>>

eVars == <<eIssued, eInFlight, eLoops, eRunning, eOut>>

gVars == <<gPc, gRange, gRotation, gReference, gAngle, gPayload>>

vars == <<rateLimiters, now, win, dPc, dCall, dError, dStatus, dErrors, dDone, dHttp, dOutcome,
          nPc, nNode, nMsg, nPath, nResult, nError, nStatus, nErrors, nDone, nSent, nHttp,
          uPc, uCall, uResult,
          cPc, cNode, cAttempt, cStatus, cErrors, cLog, cTrace, cClose,
          sPc, sNode, sIntervalId, sTimers, sCreated, sStatus, sPending, sCaptures, sSent, sErrors, sDone, sLast,
          lPc, lCameraId, lStreamActive, lStreamUrl, lStatus, lSent, lErrors, lTasks, lTimers, lDone, lInputs,
          rPc, rNode, rMsg, rRequests, rStatus, rErrors, rDone, rSent,
          eIssued, eInFlight, eLoops, eRunning, eOut,
          gPc, gRange, gRotation, gReference, gAngle, gPayload>>

(***************************************************************************)
(* Rate limiter                                                            *)
(***************************************************************************)
\* the Map with no entry
EmptyMap == [k \in {} |-> 0]

\* Map.set(key, value)
MapSet(map, key, value) ==
    [k \in (DOMAIN map) \cup {key} |-> IF k = key THEN value ELSE map[k]]

\* Map.delete(key)
MapDelete(map, key) ==
    [k \in (DOMAIN map) \ {key} |-> map[k]]

\* checkRateLimit with the limit test written count > maxRequests
checkRateLimit_limitOffByOne(map, key, maxRequests, windowMs, t) ==
    IF key \notin DOMAIN map
    THEN [allowed |-> TRUE,
          map |-> MapSet(map, key, [count |-> 1, resetAt |-> t + windowMs])]
    ELSE LET limiter == map[key]
         IN  IF t >= limiter.resetAt
             THEN [allowed |-> TRUE,
                   map |-> [map EXCEPT ![key] = [count |-> 1, resetAt |-> t + windowMs]]]
             ELSE IF limiter.count > maxRequests
                  THEN [allowed |-> FALSE, map |-> map]
                  ELSE [allowed |-> TRUE,
                        map |-> [map EXCEPT ![key] = [count |-> limiter.count + 1,
                                                      resetAt |-> limiter.resetAt]]]

\* checkRateLimit with the expiry test written now > resetAt
checkRateLimit_lateReset(map, key, maxRequests, windowMs, t) ==
    IF key \notin DOMAIN map
    THEN [allowed |-> TRUE,
          map |-> MapSet(map, key, [count |-> 1, resetAt |-> t + windowMs])]
    ELSE LET limiter == map[key]
         IN  IF t > limiter.resetAt
             THEN [allowed |-> TRUE,
                   map |-> [map EXCEPT ![key] = [count |-> 1, resetAt |-> t + windowMs]]]
             ELSE IF limiter.count >= maxRequests
                  THEN [allowed |-> FALSE, map |-> map]
                  ELSE [allowed |-> TRUE,
                        map |-> [map EXCEPT ![key] = [count |-> limiter.count + 1,
                                                      resetAt |-> limiter.resetAt]]]

\* checkRateLimit(key, maxRequests, windowMs) run at time t on the Map `map':
\* the value returned and the Map afterwards
checkRateLimit(map, key, maxRequests, windowMs, t) ==
    IF key \notin DOMAIN map
    THEN [allowed |-> TRUE,
          map |-> MapSet(map, key, [count |-> 1, resetAt |-> t + windowMs])]
    ELSE LET limiter == map[key]
         IN  IF t >= limiter.resetAt
             THEN [allowed |-> TRUE,
                   map |-> [map EXCEPT ![key] = [count |-> 1, resetAt |-> t + windowMs]]]
             ELSE IF limiter.count >= maxRequests
                  THEN [allowed |-> FALSE, map |-> map]
                  ELSE [allowed |-> TRUE,
                        map |-> [map EXCEPT ![key] = [count |-> limiter.count + 1,
                                                      resetAt |-> limiter.resetAt]]]

\* clearRateLimit written rateLimiters.clear()
clearRateLimit_clearsAll(map, key) ==
    EmptyMap

\* clearRateLimit that deletes nothing
clearRateLimit_noDelete(map, key) ==
    map

\* clearRateLimit(key) on the Map `map': the Map afterwards
clearRateLimit(map, key) ==
    MapDelete(map, key)

\* observation: no window is open for a key.  cleared: "no", or clearRateLimit
\* ran on the key and no checkRateLimit call was made on it since: "denied" when
\* it ran while the calls of the key's window were being denied, else "yes"
NoWindow(cleared) ==
    [open |-> FALSE, cleared |-> cleared, fresh |-> FALSE, afterClear |-> "no",
     afterDenied |-> FALSE, deadline |-> 0, max |-> 0, fixed |-> TRUE,
     calls |-> 0, results |-> <<>>]

\* observation: a call at time now falls in the window a key has open
InWindow(key) ==
    win[key].open /\ now < win[key].deadline

\* observation: the last call on the key was denied and its window is in force
BeingDenied(key) ==
    /\ InWindow(key)
    /\ win[key].results # <<>>
    /\ ~win[key].results[Len(win[key].results)]

\* observation: the window record after a call with result `allowed'.  A call on
\* a key the Map does not hold, or at or after the deadline of the window, opens
\* a window that lasts until now + windowMs.  The results are kept as long as
\* every call of the window passed the same maxRequests.
\*   fresh:       the Map held no entry for the key when the window was opened
\*   afterClear:  the window was opened by the first call after clearRateLimit
\*                ("yes" or "denied", as cleared above), else "no"
\*   afterDenied: the window was opened at or after the deadline of an entry
\*                whose count had reached maxRequests
\* afterClear and afterDenied describe the opening call and are dropped at the
\* window's second call.
WinAfter(key, maxRequests, windowMs, allowed) ==
    IF InWindow(key) /\ key \in DOMAIN rateLimiters
    THEN LET same == win[key].fixed /\ maxRequests = win[key].max
         IN  [win[key] EXCEPT !.calls = @ + 1,
                              !.afterClear = "no",
                              !.afterDenied = FALSE,
                              !.fixed = same,
                              !.max = IF same THEN @ ELSE 0,
                              !.results = IF same THEN Append(@, allowed) ELSE <<>>]
    ELSE [open |-> TRUE, cleared |-> "no",
          fresh |-> key \notin DOMAIN rateLimiters,
          afterClear |-> win[key].cleared,
          afterDenied |-> /\ key \in DOMAIN rateLimiters
                          /\ rateLimiters[key].count >= maxRequests
                          /\ now >= rateLimiters[key].resetAt,
          deadline |-> now + windowMs, max |-> maxRequests, fixed |-> TRUE,
          calls |-> 1, results |-> <<allowed>>]

RLInit ==
    /\ rateLimiters = EmptyMap
    /\ now = 0
    /\ win = [k \in Keys |-> NoWindow("no")]

\* a call checkRateLimit(key, maxRequests, windowMs)
CheckRateLimit(key, maxRequests, windowMs) ==
    /\ InWindow(key) => win[key].calls < MaxCalls
    /\ LET r == checkRateLimit(rateLimiters, key, maxRequests, windowMs, now)
       IN  /\ rateLimiters' = r.map
           /\ win' = [win EXCEPT ![key] = WinAfter(key, maxRequests, windowMs, r.allowed)]
    /\ UNCHANGED now

\* a call clearRateLimit(key)
ClearRateLimit(key) ==
    /\ rateLimiters' = clearRateLimit(rateLimiters, key)
    /\ win' = [win EXCEPT ![key] = NoWindow(IF BeingDenied(key) THEN "denied" ELSE "yes")]
    /\ UNCHANGED now

\* time passes
Tick ==
    /\ now < MaxTime
    /\ now' = now + 1
    /\ UNCHANGED <<rateLimiters, win>>

RLCheckStep ==
    /\ \E key \in Keys, maxRequests \in 0..MaxReq, windowMs \in 0..MaxWindow :
           CheckRateLimit(key, maxRequests, windowMs)
    /\ UNCHANGED <<dVars, nVars, uVars, cVars, sVars, lVars, rVars, eVars, gVars>>

RLClearStep ==
    /\ \E key \in Keys : ClearRateLimit(key)
    /\ UNCHANGED <<dVars, nVars, uVars, cVars, sVars, lVars, rVars, eVars, gVars>>

RLTick ==
    /\ Tick
    /\ UNCHANGED <<dVars, nVars, uVars, cVars, sVars, lVars, rVars, eVars, gVars>>

RLNext ==
    \/ RLCheckStep
    \/ RLClearStep
    \/ RLTick

(***************************************************************************)
(* Status reporter and configuration resolver                              *)
(***************************************************************************)
\* CONSTANTS.API.DEFAULT_URL
DEFAULT_URL == "http://localhost:8000"

\* CONSTANTS.API.DEFAULT_TIMEOUT
DEFAULT_TIMEOUT == 30000

\* the message of the error getApiSettings throws
MissingConfigMessage == "Missing API configuration. Please configure mv-config node."

\* the apiConfig values a caller passes: none, or a config node whose apiUrl and
\* timeout are set or unset ("" and 0 are the falsy values of the || defaults)
NoConfig == [present |-> FALSE, apiUrl |-> "", timeout |-> 0]

Configs ==
    {NoConfig} \cup
    [present : {TRUE}, apiUrl : {"", "http://backend:9000"}, timeout : {0, 5000}]

\* getApiSettings with the !apiConfig test left out
getApiSettings_noCheck(apiConfig) ==
    [ok |-> TRUE,
     apiUrl |-> IF apiConfig.apiUrl # "" THEN apiConfig.apiUrl ELSE DEFAULT_URL,
     timeout |-> IF apiConfig.timeout # 0 THEN apiConfig.timeout ELSE DEFAULT_TIMEOUT]

\* getApiSettings(apiConfig): ok = FALSE stands for the throw of
\* Error(MissingConfigMessage); the headers are not modelled
getApiSettings(apiConfig) ==
    IF ~apiConfig.present
    THEN [ok |-> FALSE, apiUrl |-> "", timeout |-> 0]
    ELSE [ok |-> TRUE,
          apiUrl |-> IF apiConfig.apiUrl # "" THEN apiConfig.apiUrl ELSE DEFAULT_URL,
          timeout |-> IF apiConfig.timeout # 0 THEN apiConfig.timeout ELSE DEFAULT_TIMEOUT]

\* the status before node.status was ever called, and the one of node.status({})
StatusNone == [fill |-> "", shape |-> "", text |-> ""]

\* setNodeStatus(node, statusType, message, processingTime): the object handed to
\* node.status.  message "" stands for null; processingTime is <<>> for null and
\* <<text>> otherwise, text being what the template literal prints for the
\* value ("12" for 12, "undefined" for undefined, which also passes `!== null').
setNodeStatus(statusType, message, processingTime) ==
    CASE statusType = "ready" ->
            [fill |-> "grey", shape |-> "ring", text |-> "ready"]
      [] statusType = "processing" ->
            [fill |-> "blue", shape |-> "dot",
             text |-> IF message # "" THEN message ELSE "processing..."]
      [] statusType = "error" ->
            [fill |-> "red", shape |-> "dot",
             text |-> IF message # "" THEN message ELSE "error"]
      [] statusType = "success" ->
            [fill |-> "green", shape |-> "dot",
             text |-> IF processingTime # <<>>
                      THEN (IF message # ""
                            THEN message \o " | " \o processingTime[1] \o "ms"
                            ELSE processingTime[1] \o "ms")
                      ELSE (IF message # "" THEN message ELSE "success")]
      [] statusType = "no_results" ->
            [fill |-> "yellow", shape |-> "ring",
             text |-> IF processingTime # <<>>
                      THEN (IF message # ""
                            THEN message \o " | " \o processingTime[1] \o "ms"
                            ELSE "no results | " \o processingTime[1] \o "ms")
                      ELSE (IF message # "" THEN message ELSE "no results")]
      [] statusType = "clear" -> StatusNone
      [] OTHER ->
            [fill |-> "grey", shape |-> "ring",
             text |-> IF message # "" THEN message ELSE "unknown"]

(***************************************************************************)
(* Error classification                                                    *)
(***************************************************************************)
\* the HTTP statuses of error responses
Statuses == {302, 400, 401, 402, 403, 404, 422, 499, 500, 503}

\* response.data.detail: absent, the empty string, or a text
Details ==
    {[present |-> FALSE, value |-> ""],
     [present |-> TRUE, value |-> ""],
     [present |-> TRUE, value |-> "Template not found"]}

\* the errors axios rejects with: an error response (response and request set), no
\* response received (request set: connection refused, or the timeout, for which
\* axios sets code ECONNABORTED), and an error raised before a request was made
HttpErrors ==
    {[response |-> TRUE, status |-> s, detail |-> d, statusText |-> "Reason Phrase",
      request |-> TRUE, code |-> "ERR_BAD_RESPONSE",
      message |-> "Request failed with status code " \o ToString(s)] :
        s \in Statuses, d \in Details}

NoResponseErrors ==
    {[response |-> FALSE, status |-> 0, detail |-> [present |-> FALSE, value |-> ""],
      statusText |-> "", request |-> TRUE, code |-> c,
      message |-> "no response: " \o c] : c \in {"ECONNREFUSED", "ECONNABORTED"}}

SetupErrors ==
    {[response |-> FALSE, status |-> 0, detail |-> [present |-> FALSE, value |-> ""],
      statusText |-> "", request |-> FALSE, code |-> c,
      message |-> "no request: " \o c] : c \in {"ERR_INVALID_URL", "ECONNABORTED"}}

AxiosErrors == HttpErrors \cup NoResponseErrors \cup SetupErrors

NoAxiosError ==
    [response |-> FALSE, status |-> 0, detail |-> [present |-> FALSE, value |-> ""],
     statusText |-> "", request |-> FALSE, code |-> "", message |-> ""]

\* error.response.data?.detail || error.response.statusText
ResponseDetail(error) ==
    IF error.detail.present /\ error.detail.value # ""
    THEN error.detail.value
    ELSE error.statusText

\* the catch block of callVisionAPI with 403 left out of the authentication test
callVisionAPI_classify_no403(error, url, timeout) ==
    IF error.response
    THEN LET status == error.status
             detail == ResponseDetail(error)
         IN  IF status = 404
             THEN [errorMessage |-> "Not found: " \o detail, statusMessage |-> "not found"]
             ELSE IF status = 400
             THEN [errorMessage |-> "Invalid request: " \o detail,
                   statusMessage |-> "invalid request"]
             ELSE IF status = 401
             THEN [errorMessage |-> "Authentication error: " \o detail,
                   statusMessage |-> "auth error"]
             ELSE IF status >= 500
             THEN [errorMessage |-> "Server error: " \o detail,
                   statusMessage |-> "server error"]
             ELSE [errorMessage |-> "API error (" \o ToString(status) \o "): " \o detail,
                   statusMessage |-> "error " \o ToString(status)]
    ELSE IF error.request
    THEN [errorMessage |-> "Network error: Cannot reach API at " \o url,
          statusMessage |-> "network error"]
    ELSE IF error.code = "ECONNABORTED"
    THEN [errorMessage |-> "Timeout: Request took longer than " \o ToString(timeout) \o "ms",
          statusMessage |-> "timeout"]
    ELSE [errorMessage |-> "Error: " \o error.message, statusMessage |-> "error"]

\* the catch block of callVisionAPI: errorMessage and statusMessage
callVisionAPI_classify(error, url, timeout) ==
    IF error.response
    THEN LET status == error.status
             detail == ResponseDetail(error)
         IN  IF status = 404
             THEN [errorMessage |-> "Not found: " \o detail, statusMessage |-> "not found"]
             ELSE IF status = 400
             THEN [errorMessage |-> "Invalid request: " \o detail,
                   statusMessage |-> "invalid request"]
             ELSE IF status = 401 \/ status = 403
             THEN [errorMessage |-> "Authentication error: " \o detail,
                   statusMessage |-> "auth error"]
             ELSE IF status >= 500
             THEN [errorMessage |-> "Server error: " \o detail,
                   statusMessage |-> "server error"]
             ELSE [errorMessage |-> "API error (" \o ToString(status) \o "): " \o detail,
                   statusMessage |-> "error " \o ToString(status)]
    ELSE IF error.request
    THEN [errorMessage |-> "Network error: Cannot reach API at " \o url,
          statusMessage |-> "network error"]
    ELSE IF error.code = "ECONNABORTED"
    THEN [errorMessage |-> "Timeout: Request took longer than " \o ToString(timeout) \o "ms",
          statusMessage |-> "timeout"]
    ELSE [errorMessage |-> "Error: " \o error.message, statusMessage |-> "error"]

\* extractErrorMessage(error, url, timeout)
extractErrorMessage(error, url, timeout) ==
    IF error.response
    THEN LET status == error.status
             detail == ResponseDetail(error)
         IN  IF status = 404 THEN "Not found: " \o detail
             ELSE IF status = 400 THEN "Invalid request: " \o detail
             ELSE IF status = 401 \/ status = 403 THEN "Authentication error: " \o detail
             ELSE IF status >= 500 THEN "Server error: " \o detail
             ELSE "API error (" \o ToString(status) \o "): " \o detail
    ELSE IF error.request
    THEN "Network error: Cannot reach API at " \o url
    ELSE IF error.code = "ECONNABORTED"
    THEN "Timeout: Request took longer than " \o ToString(timeout) \o "ms"
    ELSE "Error: " \o error.message

\* getStatusMessage(error), with the CONSTANTS.STATUS_TEXT values
getStatusMessage(error) ==
    IF error.response
    THEN LET status == error.status
         IN  IF status = 404 THEN "not found"
             ELSE IF status = 400 THEN "invalid request"
             ELSE IF status = 401 \/ status = 403 THEN "auth error"
             ELSE IF status >= 500 THEN "server error"
             ELSE "error " \o ToString(status)
    ELSE IF error.request THEN "network error"
    ELSE IF error.code = "ECONNABORTED" THEN "timeout"
    ELSE "error"

\* the classification a dispatcher applies: callVisionAPI its own catch block,
\* callCameraAPI and callImageAPI the pair extractErrorMessage / getStatusMessage
Classify(api, error, url, timeout) ==
    IF api = "vision"
    THEN callVisionAPI_classify(error, url, timeout)
    ELSE [errorMessage |-> extractErrorMessage(error, url, timeout),
          statusMessage |-> getStatusMessage(error)]

(***************************************************************************)
(* Request dispatchers: one call of callVisionAPI / callCameraAPI /        *)
(* callImageAPI, as the unit tests and the nodes make it                   *)
(***************************************************************************)
Apis == {"vision", "camera", "image"}

\* the endpoint each dispatcher is called with
Endpoint(api) ==
    CASE api = "vision" -> "/api/vision/template-match"
      [] api = "camera" -> "/api/camera/capture"
      [] OTHER -> "/api/image/import"

\* the options of a call.  callVisionAPI uses options.node without a test, and
\* every caller passes it; callCameraAPI and callImageAPI test `if (node)' and
\* are also called with node: null.
Calls ==
    {c \in [api : Apis, apiConfig : Configs, node : BOOLEAN, done : BOOLEAN] :
        c.api = "vision" => c.node}

NoCall == [api |-> "vision", apiConfig |-> NoConfig, node |-> TRUE, done |-> FALSE]

\* the values of a promise and of a done argument
Pending == [state |-> "pending", message |-> ""]

Resolved == [state |-> "resolved", message |-> ""]

Rejected(message) == [state |-> "rejected", message |-> message]

DoneOk == [error |-> FALSE, message |-> ""]

DoneError(message) == [error |-> TRUE, message |-> message]

\* `${apiUrl}${endpoint}`
Url(call) == getApiSettings(call.apiConfig).apiUrl \o Endpoint(call.api)

DInit ==
    /\ dPc = "idle"
    /\ dCall = NoCall
    /\ dError = NoAxiosError
    /\ dStatus = StatusNone
    /\ dErrors = <<>>
    /\ dDone = <<>>
    /\ dHttp = 0
    /\ dOutcome = Pending

\* the dispatcher is called without a usable apiConfig: getApiSettings throws,
\* the catch block reports and rethrows
DCallNoConfig(call) ==
    /\ dPc = "idle"
    /\ ~getApiSettings(call.apiConfig).ok
    /\ dCall' = call
    /\ dStatus' = IF call.node THEN setNodeStatus("error", "no config", <<>>) ELSE dStatus
    /\ dErrors' = IF call.node THEN Append(dErrors, MissingConfigMessage) ELSE dErrors
    /\ dDone' = IF call.done THEN Append(dDone, DoneError(MissingConfigMessage)) ELSE dDone
    /\ dOutcome' = Rejected(MissingConfigMessage)
    /\ dPc' = "settled"
    /\ UNCHANGED <<dError, dHttp>>

\* the dispatcher is called with an apiConfig: the request goes to axios and
\* the call awaits the reply (callVisionAPI sets the processing status first)
DCallSend(call) ==
    /\ dPc = "idle"
    /\ getApiSettings(call.apiConfig).ok
    /\ dCall' = call
    /\ dStatus' = IF call.api = "vision" THEN setNodeStatus("processing", "", <<>>) ELSE dStatus
    /\ dHttp' = dHttp + 1
    /\ dPc' = "inflight"
    /\ UNCHANGED <<dError, dErrors, dDone, dOutcome>>

\* axios resolves: the dispatcher returns response.data
DResolve ==
    /\ dPc = "inflight"
    /\ dOutcome' = Resolved
    /\ dPc' = "settled"
    /\ UNCHANGED <<dCall, dError, dStatus, dErrors, dDone, dHttp>>

\* axios rejects with `error': the catch block classifies, sets the status,
\* logs, calls done with a new Error(errorMessage) and rethrows `error'
DReject(error) ==
    /\ dPc = "inflight"
    /\ LET c == Classify(dCall.api, error, Url(dCall),
                         getApiSettings(dCall.apiConfig).timeout)
       IN  /\ dStatus' = IF dCall.node
                         THEN setNodeStatus("error", c.statusMessage, <<>>)
                         ELSE dStatus
           /\ dErrors' = IF dCall.node THEN Append(dErrors, c.errorMessage) ELSE dErrors
           /\ dDone' = IF dCall.done THEN Append(dDone, DoneError(c.errorMessage)) ELSE dDone
    /\ dError' = error
    /\ dOutcome' = Rejected(error.message)
    /\ dPc' = "settled"
    /\ UNCHANGED <<dCall, dHttp>>

\* the next call starts from fresh mocks
DReset ==
    /\ dPc = "settled"
    /\ dPc' = "idle"
    /\ dCall' = NoCall
    /\ dError' = NoAxiosError
    /\ dStatus' = StatusNone
    /\ dErrors' = <<>>
    /\ dDone' = <<>>
    /\ dHttp' = 0
    /\ dOutcome' = Pending

DCallNoConfigStep ==
    /\ \E call \in Calls : DCallNoConfig(call)
    /\ UNCHANGED <<rlVars, nVars, uVars, cVars, sVars, lVars, rVars, eVars, gVars>>

DCallSendStep ==
    /\ \E call \in Calls : DCallSend(call)
    /\ UNCHANGED <<rlVars, nVars, uVars, cVars, sVars, lVars, rVars, eVars, gVars>>

DResolveStep ==
    /\ DResolve
    /\ UNCHANGED <<rlVars, nVars, uVars, cVars, sVars, lVars, rVars, eVars, gVars>>

DRejectStep ==
    /\ \E error \in AxiosErrors : DReject(error)
    /\ UNCHANGED <<rlVars, nVars, uVars, cVars, sVars, lVars, rVars, eVars, gVars>>

DResetStep ==
    /\ DReset
    /\ UNCHANGED <<rlVars, nVars, uVars, cVars, sVars, lVars, rVars, eVars, gVars>>

DNext ==
    \/ DCallNoConfigStep
    \/ DCallSendStep
    \/ DResolveStep
    \/ DRejectStep
    \/ DResetStep

(***************************************************************************)
(* Vision nodes: the input handlers of template-match, edge-detect,        *)
(* aruco-detect, color-detect and rotation-detect                          *)
(***************************************************************************)
\* the longest objects array of a response
MaxObjects == 2

NodeTypes ==
    {"template-match", "edge-detect", "aruco-detect", "color-detect", "rotation-detect"}

\* a JavaScript value that may be undefined or null
Undefined == [kind |-> "undefined"]

Null == [kind |-> "null"]

Value(v) == [kind |-> "value", v |-> v]

\* `x !== undefined && x !== null'
IsSet(x) == x.kind = "value"

\* an object without properties
EmptyObject == [k \in {} |-> 0]

\* a config node that leaves apiUrl and timeout to their defaults
TheConfig == [present |-> TRUE, apiUrl |-> "", timeout |-> 0]

\* the nodes of a flow: type, config node, and the editor settings the input
\* handlers read (templateId, expectedColor, angleRange); name is left unset
Nodes ==
    {n \in [type : NodeTypes,
            apiConfig : {NoConfig, TheConfig},
            templateId : {"", "tpl-node"},
            expectedColor : {"", "red"},
            angleRange : {"0_360", "-180_180", "0_180"}] :
        /\ n.type # "template-match" => n.templateId = ""
        /\ n.type # "color-detect" => n.expectedColor = ""
        /\ n.type # "rotation-detect" => n.angleRange = "0_360"}

NoNode ==
    [type |-> "none", apiConfig |-> NoConfig, templateId |-> "",
     expectedColor |-> "", angleRange |-> "0_360"]

\* `node.name || "<default>"' with name unset
NodeName(type) ==
    CASE type = "template-match" -> "Template Match"
      [] type = "edge-detect" -> "Edge Detection"
      [] type = "aruco-detect" -> "ArUco Detection"
      [] type = "color-detect" -> "Color Detection"
      [] OTHER -> "Rotation Detection"

\* the endpoint each node posts to
NodeEndpoint(type) == "/api/vision/" \o type

\* msg.reference_object as aruco-detect leaves it on a message
TheReference == [rotation |-> 350, marker_id |-> 7]

\* the input messages: image_id at the root and/or in the payload ("" is
\* unset), payload.timestamp, msg.templateId, payload.contour (an array or
\* missing) and msg.reference_object
Msgs(type) ==
    {m \in [image_id : {"", "img-root"},
            payload_image_id : {"", "img-payload"},
            timestamp : {"", "2024-05-01T10:00:00.000Z"},
            templateId : {"", "tpl-msg"},
            contour : BOOLEAN,
            reference_object : {Undefined, Value(TheReference)}] :
        /\ type # "template-match" => m.templateId = ""
        /\ type # "rotation-detect" => (~m.contour /\ m.reference_object = Undefined)}

NoMsg ==
    [image_id |-> "", payload_image_id |-> "", timestamp |-> "", templateId |-> "",
     contour |-> FALSE, reference_object |-> Undefined]

\* getImageId(msg): "" stands for null
getImageId(msg) ==
    IF msg.image_id # "" THEN msg.image_id
    ELSE IF msg.payload_image_id # "" THEN msg.payload_image_id
    ELSE ""

\* what new Date().toISOString() returns while the message is handled
ClockISO == "2024-05-01T10:00:01.000Z"

\* getTimestamp(msg)
getTimestamp(msg) ==
    IF msg.timestamp # "" THEN msg.timestamp ELSE ClockISO

\* the algorithm-specific properties the backend attaches to an object
TheProperties ==
    [marker_id |-> 7, dominant_color |-> "red", method |-> "min_area_rect",
     angle_range |-> "0_360", absolute_angle |-> 200]

\* the entries of a response's objects array.  Angles, areas and lengths are
\* whole numbers and confidence is in hundredths; properties and the optional
\* fields are set, null or missing.
RawObjects ==
    { [object_id |-> "obj-a", object_type |-> "contour",
       bounding_box |-> [x |-> 10, y |-> 20, width |-> 30, height |-> 40],
       center |-> [x |-> 25, y |-> 40], confidence |-> 95,
       properties |-> Value(TheProperties),
       area |-> Value(1200), perimeter |-> Value(140),
       rotation |-> Value(200), contour |-> Value("points-a")],
      [object_id |-> "obj-b", object_type |-> "aruco_marker",
       bounding_box |-> [x |-> 50, y |-> 60, width |-> 5, height |-> 5],
       center |-> [x |-> 52, y |-> 62], confidence |-> 80,
       properties |-> Undefined,
       area |-> Undefined, perimeter |-> Null,
       rotation |-> Undefined, contour |-> Undefined],
      [object_id |-> "obj-c", object_type |-> "template_match",
       bounding_box |-> [x |-> 0, y |-> 0, width |-> 8, height |-> 9],
       center |-> [x |-> 4, y |-> 4], confidence |-> 60,
       properties |-> Value(TheProperties),
       area |-> Null, perimeter |-> Undefined,
       rotation |-> Value(-170), contour |-> Null],
      [object_id |-> "obj-d", object_type |-> "contour",
       bounding_box |-> [x |-> 1, y |-> 2, width |-> 3, height |-> 4],
       center |-> [x |-> 2, y |-> 4], confidence |-> 70,
       properties |-> Value(TheProperties),
       area |-> Undefined, perimeter |-> Value(77),
       rotation |-> Null, contour |-> Value("points-d")] }

\* the arrays of at most n entries of S
SeqsUpTo(S, n) == UNION {[1..k -> S] : k \in 0..n}

\* response.data of a successful reply: objects is missing or an array
Results ==
    [objects : {Undefined} \cup {Value(objs) : objs \in SeqsUpTo(RawObjects, MaxObjects)},
     thumbnail_base64 : {"thumb"},
     processing_time_ms : {Undefined, Value(12)}]

NoResult ==
    [objects |-> Undefined, thumbnail_base64 |-> "", processing_time_ms |-> Undefined]

\* `!result.objects || result.objects.length === 0'
NoObjects(result) ==
    ~IsSet(result.objects) \/ Len(result.objects.v) = 0

\* result.processing_time_ms as setNodeStatus receives and prints it
ProcessingTime(result) ==
    IF IsSet(result.processing_time_ms)
    THEN <<ToString(result.processing_time_ms.v)>>
    ELSE <<"undefined">>

\* the field `name' when x is neither undefined nor null, nothing otherwise
OptionalField(name, x) ==
    IF IsSet(x) THEN (name :> x.v) ELSE EmptyObject

\* createVisionObjectMessage with `!== undefined' as the only test of the
\* optional fields: a null is copied
createVisionObjectMessage_copiesNull(obj, imageId, timestamp, thumbnail, msg) ==
    [msg |-> msg,
     payload |->
        [object_id |-> obj.object_id,
         object_type |-> obj.object_type,
         image_id |-> imageId,
         timestamp |-> timestamp,
         bounding_box |-> obj.bounding_box,
         center |-> obj.center,
         confidence |-> obj.confidence,
         thumbnail |-> thumbnail,
         properties |-> IF IsSet(obj.properties) THEN obj.properties.v ELSE EmptyObject]
        @@ (IF obj.area # Undefined THEN [area |-> obj.area] ELSE EmptyObject)
        @@ (IF obj.perimeter # Undefined THEN [perimeter |-> obj.perimeter] ELSE EmptyObject)
        @@ (IF obj.rotation # Undefined THEN [rotation |-> obj.rotation] ELSE EmptyObject)
        @@ (IF obj.contour # Undefined THEN [contour |-> obj.contour] ELSE EmptyObject)]

\* createVisionObjectMessage(obj, imageId, timestamp, thumbnail, msg, RED): the
\* clone of msg (its root properties are kept under `msg') with the payload
\* replaced by the VisionObject
createVisionObjectMessage(obj, imageId, timestamp, thumbnail, msg) ==
    [msg |-> msg,
     payload |->
        [object_id |-> obj.object_id,
         object_type |-> obj.object_type,
         image_id |-> imageId,
         timestamp |-> timestamp,
         bounding_box |-> obj.bounding_box,
         center |-> obj.center,
         confidence |-> obj.confidence,
         thumbnail |-> thumbnail,
         properties |-> IF IsSet(obj.properties) THEN obj.properties.v ELSE EmptyObject]
        @@ OptionalField("area", obj.area)
        @@ OptionalField("perimeter", obj.perimeter)
        @@ OptionalField("rotation", obj.rotation)
        @@ OptionalField("contour", obj.contour)]

\* outputMsg.success, .processing_time_ms and .node_name
Metadata(type, result) ==
    [success |-> TRUE,
     processing_time_ms |-> result.processing_time_ms,
     node_name |-> NodeName(type)]

\* the TypeError of reading property `name' of undefined
TypeErrorReading(name) ==
    "Cannot read properties of undefined (reading '" \o name \o "')"

\* the TypeError of reading property `name' of x, x being undefined or null
TypeErrorReadingOf(x, name) ==
    "Cannot read properties of " \o x.kind \o " (reading '" \o name \o "')"

\* the input validation without the test of the image id
InputError_noImageIdTest(node, msg) ==
    IF node.type = "template-match" /\ msg.templateId = "" /\ node.templateId = ""
    THEN [message |-> "No template_id configured", status |-> "missing template"]
    ELSE IF node.type = "rotation-detect" /\ ~msg.contour
    THEN [message |-> "No contour found in msg.payload.contour", status |-> "missing contour"]
    ELSE [message |-> "", status |-> ""]

\* the input validation at the head of each handler: the message and the
\* status text of the first failing test, "" when the input is accepted
InputError(node, msg) ==
    IF getImageId(msg) = ""
    THEN [message |-> "No image_id provided", status |-> "missing image_id"]
    ELSE IF node.type = "template-match" /\ msg.templateId = "" /\ node.templateId = ""
    THEN [message |-> "No template_id configured", status |-> "missing template"]
    ELSE IF node.type = "rotation-detect" /\ ~msg.contour
    THEN [message |-> "No contour found in msg.payload.contour", status |-> "missing contour"]
    ELSE [message |-> "", status |-> ""]

\* what a handler's continuation does once callVisionAPI has returned: the
\* messages sent, the status left and the argument of the one done call.  A
\* throw inside the try block sends nothing more, leaves the status as it is
\* and ends in the catch block's done(error).
Thrown(message, status) ==
    [sent |-> <<>>, status |-> status, done |-> DoneError(message)]

\* the status text of a response without objects
NoResultsText(node) ==
    CASE node.type = "template-match" -> "not found"
      [] node.type = "edge-detect" -> "no edges"
      [] node.type = "aruco-detect" -> "no markers"
      [] OTHER -> IF node.expectedColor # "" THEN "mismatch" ELSE "no color"

\* `${n} match${n > 1 ? 'es' : ''}' and its siblings
CountMsg(type, n) ==
    CASE type = "template-match" -> ToString(n) \o " match" \o (IF n > 1 THEN "es" ELSE "")
      [] type = "edge-detect" -> ToString(n) \o " contour" \o (IF n > 1 THEN "s" ELSE "")
      [] OTHER -> ToString(n) \o " marker" \o (IF n > 1 THEN "s" ELSE "")

\* the reference_object aruco-detect attaches to every message: the first marker
ReferenceObject(first) ==
    [rotation |-> first.rotation,
     center |-> first.center,
     marker_id |-> first.properties.v.marker_id,
     object_type |-> first.object_type]

\* `while (a < low) a += step'
RECURSIVE RaiseWhileBelow(_, _, _)
RaiseWhileBelow(a, low, step) ==
    IF a < low THEN RaiseWhileBelow(a + step, low, step) ELSE a

\* `while (a >= high) a -= step'
RECURSIVE LowerWhileAtLeast(_, _, _)
LowerWhileAtLeast(a, high, step) ==
    IF a >= high THEN LowerWhileAtLeast(a - step, high, step) ELSE a

\* `while (a > high) a -= step'
RECURSIVE LowerWhileAbove(_, _, _)
LowerWhileAbove(a, high, step) ==
    IF a > high THEN LowerWhileAbove(a - step, high, step) ELSE a

\* the normalisation of relativeAngle in rotation-detect
normalizeRelative(angleRange, relativeAngle) ==
    CASE angleRange = "0_360" ->
            LowerWhileAtLeast(RaiseWhileBelow(relativeAngle, 0, 360), 360, 360)
      [] angleRange = "-180_180" ->
            LowerWhileAbove(RaiseWhileBelow(relativeAngle, -180, 360), 180, 360)
      [] angleRange = "0_180" ->
            LowerWhileAtLeast(RaiseWhileBelow(relativeAngle, 0, 180), 180, 180)
      [] OTHER -> relativeAngle

\* x.toFixed(1) of a whole number
ToFixed1(x) == ToString(x) \o ".0"

\* rotation-detect after callVisionAPI has returned `result'
RotationResult(node, msg, result, status) ==
    IF NoObjects(result)
    THEN Thrown("No rotation analysis result", status)
    ELSE LET obj == result.objects.v[1]
         IN  IF ~IsSet(obj.properties)
             THEN Thrown(TypeErrorReading("method"), status)
             ELSE IF ~IsSet(obj.rotation)
             THEN Thrown(TypeErrorReadingOf(obj.rotation, "toFixed"), status)
             ELSE LET hasReference == IsSet(msg.reference_object)
                      relative ==
                          normalizeRelative(node.angleRange,
                              obj.rotation.v - msg.reference_object.v.rotation)
                      properties ==
                          [rotation_method |-> obj.properties.v.method,
                           rotation_angle_range |-> obj.properties.v.angle_range,
                           absolute_angle |-> obj.properties.v.absolute_angle]
                          @@ (IF hasReference
                              THEN [reference_angle |-> msg.reference_object.v.rotation,
                                    reference_marker_id |-> msg.reference_object.v.marker_id]
                              ELSE EmptyObject)
                      payload ==
                          [rotation |-> obj.rotation.v,
                           rotation_confidence |-> obj.confidence,
                           properties |-> properties,
                           thumbnail |-> result.thumbnail_base64]
                          @@ (IF hasReference
                              THEN [rotation_relative |-> relative]
                              ELSE EmptyObject)
                      statusText ==
                          ToFixed1(obj.rotation.v) \o "°"
                          \o (IF hasReference
                              THEN " (Δ" \o ToFixed1(relative) \o "°)"
                              ELSE "")
                      outputMsg ==
                          [msg |-> msg, payload |-> payload]
                          @@ (IF hasReference
                              THEN [reference_object |-> msg.reference_object.v]
                              ELSE EmptyObject)
                          @@ Metadata(node.type, result)
                 IN  [sent |-> <<outputMsg>>,
                      status |-> setNodeStatus("success", statusText, ProcessingTime(result)),
                      done |-> DoneOk]

\* template-match, edge-detect, aruco-detect and color-detect after
\* callVisionAPI has returned `result'
DetectionResult(node, msg, result, status) ==
    IF NoObjects(result)
    THEN [sent |-> <<>>,
          status |-> setNodeStatus("no_results", NoResultsText(node), ProcessingTime(result)),
          done |-> DoneOk]
    ELSE LET objs == result.objects.v
             Out(obj) ==
                 createVisionObjectMessage(obj, getImageId(msg), getTimestamp(msg),
                                           result.thumbnail_base64, msg)
                 @@ Metadata(node.type, result)
         IN  IF node.type = "color-detect"
             THEN [sent |-> <<Out(objs[1])>>,
                   status |-> setNodeStatus("success",
                                  IF IsSet(objs[1].properties)
                                  THEN objs[1].properties.v.dominant_color
                                  ELSE "unknown",
                                  ProcessingTime(result)),
                   done |-> DoneOk]
             ELSE IF node.type = "aruco-detect" /\ ~IsSet(objs[1].properties)
             THEN Thrown(TypeErrorReading("marker_id"), status)
             ELSE [sent |-> [i \in 1..Len(objs) |->
                                IF node.type = "aruco-detect"
                                THEN Out(objs[i])
                                     @@ [reference_object |-> ReferenceObject(objs[1])]
                                ELSE Out(objs[i])],
                   status |-> setNodeStatus("success", CountMsg(node.type, Len(objs)),
                                            ProcessingTime(result)),
                   done |-> DoneOk]

\* the continuation of the input handler of `node'
OnResult(node, msg, result, status) ==
    IF node.type = "rotation-detect"
    THEN RotationResult(node, msg, result, status)
    ELSE DetectionResult(node, msg, result, status)

NInit ==
    /\ nPc = "none"
    /\ nNode = NoNode
    /\ nMsg = NoMsg
    /\ nPath = ""
    /\ nResult = NoResult
    /\ nError = NoAxiosError
    /\ nStatus = StatusNone
    /\ nErrors = <<>>
    /\ nDone = <<>>
    /\ nSent = <<>>
    /\ nHttp = 0

\* the constructor: the settings are stored and the status is set to ready
NCreate(node) ==
    /\ nPc = "none"
    /\ nNode' = node
    /\ nStatus' = setNodeStatus("ready", "", <<>>)
    /\ nPc' = "idle"
    /\ nMsg' = NoMsg
    /\ nPath' = ""
    /\ nResult' = NoResult
    /\ nError' = NoAxiosError
    /\ nErrors' = <<>>
    /\ nDone' = <<>>
    /\ nSent' = <<>>
    /\ nHttp' = 0

\* a message arrives while no other is being handled; what is recorded from
\* here on is what the handler does for this message
Arrives(msg) ==
    /\ nPc \in {"idle", "finished"}
    /\ msg \in Msgs(nNode.type)
    /\ nMsg' = msg
    /\ nResult' = NoResult
    /\ nError' = NoAxiosError
    /\ nSent' = <<>>
    /\ UNCHANGED nNode

\* the input fails the handler's validation: node.error, error status,
\* done(new Error(...)), return
NInputRejected(msg) ==
    /\ Arrives(msg)
    /\ InputError(nNode, msg).message # ""
    /\ nErrors' = <<InputError(nNode, msg).message>>
    /\ nStatus' = setNodeStatus("error", InputError(nNode, msg).status, <<>>)
    /\ nDone' = <<DoneError(InputError(nNode, msg).message)>>
    /\ nHttp' = 0
    /\ nPath' = "rejected"
    /\ nPc' = "finished"

\* the input is valid but the node has no config: callVisionAPI sets the status
\* 'no config', logs, calls done(error) and throws; the handler's catch block
\* calls done(error) again, error.handledByUtils never being set
NInputNoConfig(msg) ==
    /\ Arrives(msg)
    /\ InputError(nNode, msg).message = ""
    /\ ~getApiSettings(nNode.apiConfig).ok
    /\ nStatus' = setNodeStatus("error", "no config", <<>>)
    /\ nErrors' = <<MissingConfigMessage>>
    /\ nDone' = <<DoneError(MissingConfigMessage), DoneError(MissingConfigMessage)>>
    /\ nHttp' = 0
    /\ nPath' = "noconfig"
    /\ nPc' = "finished"

\* the input is valid and the node has a config: callVisionAPI sets the
\* processing status and posts the request; the handler awaits the reply
NInputSend(msg) ==
    /\ Arrives(msg)
    /\ InputError(nNode, msg).message = ""
    /\ getApiSettings(nNode.apiConfig).ok
    /\ nStatus' = setNodeStatus("processing", "", <<>>)
    /\ nErrors' = <<>>
    /\ nDone' = <<>>
    /\ nHttp' = 1
    /\ nPath' = ""
    /\ nPc' = "awaiting"

\* the backend replies 2xx with `result': the rest of the try block runs
NResponse(result) ==
    /\ nPc = "awaiting"
    /\ LET r == OnResult(nNode, nMsg, result, nStatus)
       IN  /\ nSent' = r.sent
           /\ nStatus' = r.status
           /\ nDone' = <<r.done>>
    /\ nResult' = result
    /\ nPath' = "response"
    /\ nPc' = "finished"
    /\ UNCHANGED <<nNode, nMsg, nError, nErrors, nHttp>>

\* the request fails with `error': callVisionAPI classifies it, sets the error
\* status, logs, calls done(new Error(errorMessage)) and rethrows `error'; the
\* handler's catch block calls done(error)
NFailure(error) ==
    /\ nPc = "awaiting"
    /\ LET settings == getApiSettings(nNode.apiConfig)
           c == callVisionAPI_classify(error,
                    settings.apiUrl \o NodeEndpoint(nNode.type), settings.timeout)
       IN  /\ nStatus' = setNodeStatus("error", c.statusMessage, <<>>)
           /\ nErrors' = <<c.errorMessage>>
           /\ nDone' = <<DoneError(c.errorMessage), DoneError(error.message)>>
    /\ nError' = error
    /\ nPath' = "failure"
    /\ nPc' = "finished"
    /\ UNCHANGED <<nNode, nMsg, nResult, nSent, nHttp>>

\* the close handler of an idle node: node.status({})
NClose ==
    /\ nPc \in {"idle", "finished"}
    /\ nStatus' = StatusNone
    /\ nPc' = "none"
    /\ UNCHANGED <<nNode, nMsg, nPath, nResult, nError, nErrors, nDone, nSent, nHttp>>

NCreateStep ==
    /\ \E node \in Nodes : NCreate(node)
    /\ UNCHANGED <<rlVars, dVars, uVars, cVars, sVars, lVars, rVars, eVars, gVars>>

NInputRejectedStep ==
    /\ \E msg \in Msgs(nNode.type) : NInputRejected(msg)
    /\ UNCHANGED <<rlVars, dVars, uVars, cVars, sVars, lVars, rVars, eVars, gVars>>

NInputNoConfigStep ==
    /\ \E msg \in Msgs(nNode.type) : NInputNoConfig(msg)
    /\ UNCHANGED <<rlVars, dVars, uVars, cVars, sVars, lVars, rVars, eVars, gVars>>

NInputSendStep ==
    /\ \E msg \in Msgs(nNode.type) : NInputSend(msg)
    /\ UNCHANGED <<rlVars, dVars, uVars, cVars, sVars, lVars, rVars, eVars, gVars>>

NResponseStep ==
    /\ \E result \in Results : NResponse(result)
    /\ UNCHANGED <<rlVars, dVars, uVars, cVars, sVars, lVars, rVars, eVars, gVars>>

NFailureStep ==
    /\ \E error \in AxiosErrors : NFailure(error)
    /\ UNCHANGED <<rlVars, dVars, uVars, cVars, sVars, lVars, rVars, eVars, gVars>>

NCloseStep ==
    /\ NClose
    /\ UNCHANGED <<rlVars, dVars, uVars, cVars, sVars, lVars, rVars, eVars, gVars>>

NNext ==
    \/ NCreateStep
    \/ NInputRejectedStep
    \/ NInputNoConfigStep
    \/ NInputSendStep
    \/ NResponseStep
    \/ NFailureStep
    \/ NCloseStep

(***************************************************************************)
(* Pure utilities: validateROI, validateImageId                            *)
(***************************************************************************)
\* the largest coordinate, side and maximum of a ROI
MaxSide == 2

\* a JavaScript number is NaN or a whole number n
NaN == [kind |-> "number", nan |-> TRUE, n |-> 0]

Num(n) == [kind |-> "number", nan |-> FALSE, n |-> n]

\* a value of another type (typeof 'string')
AString == [kind |-> "string"]

\* `a < b', `a <= b' and `a > b' on numbers: false when either is NaN
JsLess(a, b) == ~a.nan /\ ~b.nan /\ a.n < b.n

JsLessEq(a, b) == ~a.nan /\ ~b.nan /\ a.n <= b.n

JsGreater(a, b) == ~a.nan /\ ~b.nan /\ a.n > b.n

\* the truthiness of a number or undefined
JsTruthy(a) == a.kind = "number" /\ ~a.nan /\ a.n # 0

\* the values of a ROI field
RoiFields == {Undefined, AString, NaN} \cup {Num(n) : n \in -1..MaxSide}

\* the first argument of validateROI: not an object, or an object
Rois ==
    {[kind |-> "string"]} \cup
    [kind : {"object"}, x : RoiFields, y : RoiFields, width : RoiFields, height : RoiFields]

\* the second argument of validateROI
RoiOptions ==
    [maxWidth : {Undefined} \cup {Num(n) : n \in 0..MaxSide - 1},
     maxHeight : {Undefined} \cup {Num(n) : n \in 0..MaxSide - 1}]

\* validateROI(roi, options)
validateROI(roi, options) ==
    IF roi.kind # "object"
    THEN [valid |-> FALSE, error |-> "ROI must be an object"]
    ELSE IF Undefined \in {roi.x, roi.y, roi.width, roi.height}
    THEN [valid |-> FALSE, error |-> "ROI must have x, y, width, and height properties"]
    ELSE IF \E f \in {roi.x, roi.y, roi.width, roi.height} : f.kind # "number"
    THEN [valid |-> FALSE, error |-> "ROI coordinates must be numbers"]
    ELSE IF JsLess(roi.x, Num(0)) \/ JsLess(roi.y, Num(0))
    THEN [valid |-> FALSE, error |-> "ROI x and y must be non-negative"]
    ELSE IF JsLessEq(roi.width, Num(0)) \/ JsLessEq(roi.height, Num(0))
    THEN [valid |-> FALSE, error |-> "ROI width and height must be positive"]
    ELSE IF JsTruthy(options.maxWidth) /\ JsGreater(roi.width, options.maxWidth)
    THEN [valid |-> FALSE,
          error |-> "ROI width exceeds maximum (" \o ToString(options.maxWidth.n) \o ")"]
    ELSE IF JsTruthy(options.maxHeight) /\ JsGreater(roi.height, options.maxHeight)
    THEN [valid |-> FALSE,
          error |-> "ROI height exceeds maximum (" \o ToString(options.maxHeight.n) \o ")"]
    ELSE [valid |-> TRUE]

\* the longest explicit part of an image id
MaxIdChars == 2

\* the longest id validateImageId accepts
MaxIdLength == 255

\* the characters of an id: letters, a digit, underscore, hyphen, and
\* characters outside [a-zA-Z0-9_-]
IdAlphabet == {"a", "Z", "7", "_", "-", ".", "/", "\\", " "}

\* the characters of the class [a-zA-Z0-9_-]
IdClass == {"a", "Z", "7", "_", "-"}

\* an id is `chars' followed by `pad' times the letter a, so that ids on
\* either side of the length limit are among the inputs
ImageIds ==
    {Undefined} \cup
    [kind : {"string"},
     chars : SeqsUpTo(IdAlphabet, MaxIdChars),
     pad : {0, MaxIdLength - 1, MaxIdLength}]

\* imageId.length
IdLength(id) == Len(id.chars) + id.pad

\* imageId.includes(c) for a single character c other than a
IdIncludes(id, c) == \E i \in 1..Len(id.chars) : id.chars[i] = c

\* imageId.includes('..')
IdIncludesDotDot(id) ==
    \E i \in 1..Len(id.chars) - 1 : id.chars[i] = "." /\ id.chars[i + 1] = "."

\* /^[a-zA-Z0-9_-]+$/.test(imageId)
IdMatchesClass(id) ==
    /\ IdLength(id) >= 1
    /\ \A i \in 1..Len(id.chars) : id.chars[i] \in IdClass

\* validateImageId without the length test
validateImageId_noLength(imageId) ==
    IF imageId.kind # "string" \/ IdLength(imageId) = 0
    THEN [valid |-> FALSE, error |-> "Image ID must be a non-empty string"]
    ELSE IF IdIncludesDotDot(imageId) \/ IdIncludes(imageId, "/") \/ IdIncludes(imageId, "\\")
    THEN [valid |-> FALSE,
          error |-> "Image ID contains invalid characters (path traversal attempt)"]
    ELSE IF ~IdMatchesClass(imageId)
    THEN [valid |-> FALSE,
          error |-> "Image ID must contain only alphanumeric characters, hyphens, and underscores"]
    ELSE [valid |-> TRUE, sanitized |-> imageId]

\* validateImageId(imageId)
validateImageId(imageId) ==
    IF imageId.kind # "string" \/ IdLength(imageId) = 0
    THEN [valid |-> FALSE, error |-> "Image ID must be a non-empty string"]
    ELSE IF IdIncludesDotDot(imageId) \/ IdIncludes(imageId, "/") \/ IdIncludes(imageId, "\\")
    THEN [valid |-> FALSE,
          error |-> "Image ID contains invalid characters (path traversal attempt)"]
    ELSE IF ~IdMatchesClass(imageId)
    THEN [valid |-> FALSE,
          error |-> "Image ID must contain only alphanumeric characters, hyphens, and underscores"]
    ELSE IF IdLength(imageId) < 1 \/ IdLength(imageId) > MaxIdLength
    THEN [valid |-> FALSE, error |-> "Image ID must be between 1 and 255 characters"]
    ELSE [valid |-> TRUE, sanitized |-> imageId]

(***************************************************************************)
(* Pure utilities: buildEdgeDetectParams                                   *)
(***************************************************************************)
\* the largest whole number a setting is given, and the most settings a
\* configuration sets
MaxParam == 1

MaxSetFields == 2

\* CONSTANTS.EDGE_DETECT and CONSTANTS.LIMITS
CANNY_LOW_THRESHOLD == 50

CANNY_HIGH_THRESHOLD == 150

SOBEL_THRESHOLD == 50

SOBEL_KSIZE == 3

LAPLACIAN_THRESHOLD == 50

LAPLACIAN_KSIZE == 3

PREWITT_THRESHOLD == 50

SCHARR_THRESHOLD == 50

BLUR_KERNEL_SIZE == 0

MAX_CONTOURS == 20

MAX_CONTOUR_AREA == 100000

MIN_CONTOUR_AREA == 10

\* a string and a boolean
Str(text) == [kind |-> "string", s |-> text]

Bool(b) == [kind |-> "boolean", b |-> b]

\* the settings parsed as integers, and the other settings
IntFields ==
    {"cannyLow", "cannyHigh", "sobelThreshold", "laplacianThreshold",
     "minContourArea", "maxContourArea", "maxContours", "blurKernel"}

FlagFields == {"blurEnabled", "bilateralEnabled", "morphologyEnabled"}

TextFields == {"method", "morphologyOperation"}

EdgeFields == IntFields \cup FlagFields \cup TextFields

\* what a setting can hold when it is set: a whole number, its decimal string,
\* a string with a numeric prefix, a string without one; a boolean; a name
FieldValues(f) ==
    IF f \in IntFields
    THEN {Num(n) : n \in 0..MaxParam} \cup {Str(ToString(n)) : n \in 0..MaxParam}
         \cup {Str("1px"), Str("abc")}
    ELSE IF f \in FlagFields
    THEN {Bool(TRUE), Bool(FALSE)}
    ELSE IF f = "method"
    THEN {Str("sobel"), Str("")}
    ELSE {Str("open")}

\* the config objects: every setting missing but at most MaxSetFields of them
EdgeConfigs ==
    UNION { { [f \in EdgeFields |-> IF f \in S THEN a[f] ELSE Undefined] :
                a \in {b \in [S -> UNION {FieldValues(f) : f \in S}] :
                          \A f \in S : b[f] \in FieldValues(f)} } :
            S \in {T \in SUBSET EdgeFields : Cardinality(T) <= MaxSetFields} }

\* parseInt(v): the whole number itself, the leading decimal digits of a
\* string, NaN for a string without them and for undefined
parseInt(v) ==
    IF v.kind = "number"
    THEN v
    ELSE IF v.kind = "string"
    THEN IF \E n \in 0..MaxParam : v.s \in {ToString(n), ToString(n) \o "px"}
         THEN Num(CHOOSE n \in 0..MaxParam : v.s \in {ToString(n), ToString(n) \o "px"})
         ELSE NaN
    ELSE NaN

\* `parseInt(v)' with no fallback, NaN read as 0
ParseIntOr_noFallback(v, fallback) == parseInt(v).n

\* `parseInt(v) || fallback'
ParseIntOr(v, fallback) ==
    IF JsTruthy(parseInt(v)) THEN parseInt(v).n ELSE fallback

\* `v || fallback' for a string setting and for a boolean setting
TextOr(v, fallback) ==
    IF v.kind = "string" /\ v.s # "" THEN v.s ELSE fallback

FlagOr(v, fallback) ==
    IF v.kind = "boolean" /\ v.b THEN TRUE ELSE fallback

\* buildEdgeDetectParams(config)
buildEdgeDetectParams(config) ==
    [method |-> TextOr(config.method, "canny"),
     canny_low |-> ParseIntOr(config.cannyLow, CANNY_LOW_THRESHOLD),
     canny_high |-> ParseIntOr(config.cannyHigh, CANNY_HIGH_THRESHOLD),
     sobel_threshold |-> ParseIntOr(config.sobelThreshold, SOBEL_THRESHOLD),
     sobel_kernel |-> SOBEL_KSIZE,
     laplacian_threshold |-> ParseIntOr(config.laplacianThreshold, LAPLACIAN_THRESHOLD),
     laplacian_kernel |-> LAPLACIAN_KSIZE,
     prewitt_threshold |-> PREWITT_THRESHOLD,
     scharr_threshold |-> SCHARR_THRESHOLD,
     morph_threshold |-> 30,
     morph_kernel |-> 3,
     min_contour_area |-> ParseIntOr(config.minContourArea, MIN_CONTOUR_AREA),
     max_contour_area |-> ParseIntOr(config.maxContourArea, MAX_CONTOUR_AREA),
     min_contour_perimeter |-> 0,
     max_contour_perimeter |-> 999999,
     max_contours |-> ParseIntOr(config.maxContours, MAX_CONTOURS),
     show_centers |-> TRUE,
     blur_enabled |-> FlagOr(config.blurEnabled, FALSE),
     blur_kernel |-> ParseIntOr(config.blurKernel,
                                IF BLUR_KERNEL_SIZE # 0 THEN BLUR_KERNEL_SIZE ELSE 5),
     bilateral_enabled |-> FlagOr(config.bilateralEnabled, FALSE),
     bilateral_d |-> 9,
     bilateral_sigma_color |-> 75,
     bilateral_sigma_space |-> 75,
     morphology_enabled |-> FlagOr(config.morphologyEnabled, FALSE),
     morphology_operation |-> TextOr(config.morphologyOperation, "close"),
     morphology_kernel |-> 3,
     equalize_enabled |-> FALSE]

\* the truthiness of a setting: a non-zero number, a non-empty string, true
Truthy(v) ==
    CASE v.kind = "number" -> ~v.nan /\ v.n # 0
      [] v.kind = "string" -> v.s # ""
      [] v.kind = "boolean" -> v.b
      [] OTHER -> FALSE

\* the fallback of `node.x = config.x || fallback' in the edge-detect constructor
\* (the same in the original and in the refactored node)
ConstructorDefault(f) ==
    CASE f = "method" -> Str("canny")
      [] f = "cannyLow" -> Num(50)
      [] f = "cannyHigh" -> Num(150)
      [] f = "sobelThreshold" -> Num(50)
      [] f = "laplacianThreshold" -> Num(30)
      [] f = "blurEnabled" -> Bool(FALSE)
      [] f = "blurKernel" -> Num(5)
      [] f = "bilateralEnabled" -> Bool(FALSE)
      [] f = "morphologyEnabled" -> Bool(FALSE)
      [] f = "morphologyOperation" -> Str("close")
      [] f = "minContourArea" -> Num(10)
      [] f = "maxContourArea" -> Num(100000)
      [] OTHER -> Num(20)

\* the settings the edge-detect constructor stores on the node
EdgeNodeSettings(config) ==
    [f \in EdgeFields |->
        IF Truthy(config[f]) THEN config[f] ELSE ConstructorDefault(f)]

\* the params object the original edge-detect node builds inline
InlineEdgeParams(node) ==
    [method |-> node.method.s,
     canny_low |-> ParseIntOr(node.cannyLow, 50),
     canny_high |-> ParseIntOr(node.cannyHigh, 150),
     sobel_threshold |-> ParseIntOr(node.sobelThreshold, 50),
     sobel_kernel |-> 3,
     laplacian_threshold |-> ParseIntOr(node.laplacianThreshold, 30),
     laplacian_kernel |-> 3,
     prewitt_threshold |-> 50,
     scharr_threshold |-> 50,
     morph_threshold |-> 30,
     morph_kernel |-> 3,
     min_contour_area |-> ParseIntOr(node.minContourArea, 10),
     max_contour_area |-> ParseIntOr(node.maxContourArea, 100000),
     min_contour_perimeter |-> 0,
     max_contour_perimeter |-> 999999,
     max_contours |-> ParseIntOr(node.maxContours, 20),
     show_centers |-> TRUE,
     blur_enabled |-> FlagOr(node.blurEnabled, FALSE),
     blur_kernel |-> ParseIntOr(node.blurKernel, 5),
     bilateral_enabled |-> FlagOr(node.bilateralEnabled, FALSE),
     bilateral_d |-> 9,
     bilateral_sigma_color |-> 75,
     bilateral_sigma_space |-> 75,
     morphology_enabled |-> FlagOr(node.morphologyEnabled, FALSE),
     morphology_operation |-> TextOr(node.morphologyOperation, "close"),
     morphology_kernel |-> 3,
     equalize_enabled |-> FALSE]

NoUtilCall == [fn |-> "none"]

UInit ==
    /\ uPc = "idle"
    /\ uCall = NoUtilCall
    /\ uResult = [valid |-> FALSE]

\* validateROI(roi, options) is called and returns
UValidateROI(roi, options) ==
    /\ uPc = "idle"
    /\ uCall' = [fn |-> "validateROI", roi |-> roi, options |-> options]
    /\ uResult' = validateROI(roi, options)
    /\ uPc' = "returned"

\* validateImageId(imageId) is called and returns
UValidateImageId(imageId) ==
    /\ uPc = "idle"
    /\ uCall' = [fn |-> "validateImageId", imageId |-> imageId]
    /\ uResult' = validateImageId(imageId)
    /\ uPc' = "returned"

\* buildEdgeDetectParams(config) is called and returns
UBuildEdgeDetectParams(config) ==
    /\ uPc = "idle"
    /\ uCall' = [fn |-> "buildEdgeDetectParams", config |-> config]
    /\ uResult' = buildEdgeDetectParams(config)
    /\ uPc' = "returned"

\* an edge-detect node is constructed from `config' and builds the params of a
\* request: the original node inline, the refactored one through
\* buildEdgeDetectParams on the same stored settings
UEdgeNodeParams(config) ==
    /\ uPc = "idle"
    /\ uCall' = [fn |-> "edge-detect", config |-> config]
    /\ uResult' = [original |-> InlineEdgeParams(EdgeNodeSettings(config)),
                   refactored |-> buildEdgeDetectParams(EdgeNodeSettings(config))]
    /\ uPc' = "returned"

\* the caller is done with the result
UNextCall ==
    /\ uPc = "returned"
    /\ uPc' = "idle"
    /\ uCall' = NoUtilCall
    /\ uResult' = [valid |-> FALSE]

UValidateROIStep ==
    /\ uPc = "idle"
    /\ \E roi \in Rois, options \in RoiOptions : UValidateROI(roi, options)
    /\ UNCHANGED <<rlVars, dVars, nVars, cVars, sVars, lVars, rVars, eVars, gVars>>

UValidateImageIdStep ==
    /\ uPc = "idle"
    /\ \E imageId \in ImageIds : UValidateImageId(imageId)
    /\ UNCHANGED <<rlVars, dVars, nVars, cVars, sVars, lVars, rVars, eVars, gVars>>

UBuildEdgeDetectParamsStep ==
    /\ uPc = "idle"
    /\ \E config \in EdgeConfigs : UBuildEdgeDetectParams(config)
    /\ UNCHANGED <<rlVars, dVars, nVars, cVars, sVars, lVars, rVars, eVars, gVars>>

UEdgeNodeParamsStep ==
    /\ uPc = "idle"
    /\ \E config \in EdgeConfigs : UEdgeNodeParams(config)
    /\ UNCHANGED <<rlVars, dVars, nVars, cVars, sVars, lVars, rVars, eVars, gVars>>

UNextCallStep ==
    /\ UNextCall
    /\ UNCHANGED <<rlVars, dVars, nVars, cVars, sVars, lVars, rVars, eVars, gVars>>

UNext ==
    \/ UValidateROIStep
    \/ UValidateImageIdStep
    \/ UBuildEdgeDetectParamsStep
    \/ UEdgeNodeParamsStep
    \/ UNextCallStep

(***************************************************************************)
(* Camera capture node: auto-connect bootstrap and close handler           *)
(***************************************************************************)
\* CONSTANTS.RETRY.MAX_ATTEMPTS, the default of maxRetries
MAX_ATTEMPTS == 5

\* CONSTANTS.RETRY.DELAY_MS, the default of retryDelay
DELAY_MS == 2000

\* the apiConfig of a camera capture node: none, or a config node
CameraApiConfigs ==
    {NoConfig, [present |-> TRUE, apiUrl |-> "http://backend:9000", timeout |-> 5000]}

\* the configurations a camera capture node is constructed with ("" is unset)
CameraConfigs ==
    [apiConfig : CameraApiConfigs, sourceType : {"", "usb", "ip", "test"},
     ipCameraUrl : {"", "rtsp://cam"}, cameraId : {"", "cam1"}, autoConnect : BOOLEAN]

\* what the constructor stores: sourceType, the camera id derived from it, autoConnect
CameraNode(config) ==
    LET sourceType == IF config.sourceType # "" THEN config.sourceType ELSE "usb"
    IN  [apiConfig |-> config.apiConfig,
         sourceType |-> sourceType,
         cameraId |-> IF sourceType = "test" THEN "test"
                      ELSE IF sourceType = "ip" /\ config.ipCameraUrl # ""
                           THEN "ip_" \o config.ipCameraUrl
                      ELSE IF config.cameraId # "" THEN config.cameraId
                      ELSE "test",
         autoConnect |-> config.autoConnect]

NoCamera == [apiConfig |-> NoConfig, sourceType |-> "", cameraId |-> "", autoConnect |-> FALSE]

\* the replies of POST /api/camera/connect: a body with success true or false,
\* or no body
ConnectReplies == {Null} \cup [kind : {"object"}, success : BOOLEAN]

\* the entries of the trace
AttemptBegun(attempt) == [event |-> "attempt", n |-> attempt]

DelayWaited(retryDelay) == [event |-> "delay", n |-> retryDelay]

Connected(attempt) == [event |-> "connected", n |-> attempt]

\* callCameraAPI's catch blocks: what they hand to node.error, given whether
\* the caller passed a node
callCameraAPI_errors(nodeGiven, errorMessage) ==
    IF nodeGiven THEN <<errorMessage>> ELSE <<>>

\* "(attempt/maxRetries)..."
AttemptOf(attempt) == "(" \o ToString(attempt) \o "/" \o ToString(MAX_ATTEMPTS) \o ")..."

\* the catch block of the loop body in attempt `attempt', and the loop's exit
\* after the last one: [pc, attempt, status] afterwards
Caught(attempt) ==
    IF attempt < MAX_ATTEMPTS
    THEN [pc |-> "delay", attempt |-> attempt,
          status |-> setNodeStatus("processing", "waiting for backend " \o AttemptOf(attempt), <<>>)]
    ELSE [pc |-> "ended", attempt |-> attempt + 1,
          status |-> setNodeStatus("ready", "", <<>>)]

\* the loop test with the loop variable at `attempt', and the body up to its
\* first request: the health check is sent, or getApiSettings throws into the
\* catch block
Attempt(node, attempt, status, trace, errors) ==
    IF attempt > MAX_ATTEMPTS
    THEN [pc |-> "ended", attempt |-> attempt, status |-> status, trace |-> trace,
          errors |-> errors]
    ELSE IF ~getApiSettings(node.apiConfig).ok
         THEN [pc |-> Caught(attempt).pc, attempt |-> Caught(attempt).attempt,
               status |-> Caught(attempt).status,
               trace |-> Append(trace, AttemptBegun(attempt)),
               errors |-> errors \o callCameraAPI_errors(FALSE, MissingConfigMessage)]
         ELSE [pc |-> "health", attempt |-> attempt, status |-> status,
               trace |-> Append(trace, AttemptBegun(attempt)), errors |-> errors]

\* the constructor's condition for calling connectCameraWithRetry()
AutoConnects(node) == node.autoConnect /\ node.cameraId # "" /\ node.sourceType # "test"

CInit ==
    /\ cPc = "none"
    /\ cNode = NoCamera
    /\ cAttempt = 0
    /\ cStatus = StatusNone
    /\ cErrors = <<>>
    /\ cLog = <<>>
    /\ cTrace = <<>>
    /\ cClose = "open"

\* the constructor: status ready, then connectCameraWithRetry() up to its
\* first await when auto-connect applies
CCreate(config) ==
    /\ cPc = "none"
    /\ LET node == CameraNode(config)
           a == Attempt(node, 1, setNodeStatus("ready", "", <<>>), <<>>, <<>>)
       IN  /\ cNode' = node
           /\ IF AutoConnects(node)
              THEN /\ cPc' = a.pc
                   /\ cAttempt' = a.attempt
                   /\ cStatus' = a.status
                   /\ cTrace' = a.trace
                   /\ cErrors' = a.errors
              ELSE /\ cPc' = "off"
                   /\ cStatus' = setNodeStatus("ready", "", <<>>)
                   /\ UNCHANGED <<cAttempt, cTrace, cErrors>>
    /\ UNCHANGED <<cLog, cClose>>

\* the health check resolves: status connecting, the connect request is sent
CHealthOk ==
    /\ cPc = "health"
    /\ cStatus' = setNodeStatus("processing", "connecting " \o AttemptOf(cAttempt), <<>>)
    /\ cPc' = "connect"
    /\ UNCHANGED <<cNode, cAttempt, cErrors, cLog, cTrace, cClose>>

\* the health check rejects with an axios error: callCameraAPI rethrows it
\* into the catch block of the loop body
CHealthFail(error) ==
    /\ cPc = "health"
    /\ LET settings == getApiSettings(cNode.apiConfig)
           c == callVisionAPI_classify(error, settings.apiUrl \o "/api/system/health",
                                       settings.timeout)
       IN  cErrors' = cErrors \o callCameraAPI_errors(FALSE, c.errorMessage)
    /\ cPc' = Caught(cAttempt).pc
    /\ cAttempt' = Caught(cAttempt).attempt
    /\ cStatus' = Caught(cAttempt).status
    /\ UNCHANGED <<cNode, cLog, cTrace, cClose>>

\* the connect request resolves with `result': success ends the bootstrap, a
\* result without success falls through to the next iteration, and reading
\* success of no body throws into the catch block
CConnectReply(result) ==
    /\ cPc = "connect"
    /\ IF result = Null
       THEN /\ cPc' = Caught(cAttempt).pc
            /\ cAttempt' = Caught(cAttempt).attempt
            /\ cStatus' = Caught(cAttempt).status
            /\ UNCHANGED <<cLog, cTrace, cErrors>>
       ELSE IF result.success
       THEN /\ cStatus' = setNodeStatus("success", "connected: " \o cNode.cameraId, <<>>)
            /\ cLog' = Append(cLog, "Camera connected: " \o cNode.cameraId)
            /\ cTrace' = Append(cTrace, Connected(cAttempt))
            /\ cPc' = "ended"
            /\ UNCHANGED <<cAttempt, cErrors>>
       ELSE LET a == Attempt(cNode, cAttempt + 1, cStatus, cTrace, cErrors)
            IN  /\ cPc' = a.pc
                /\ cAttempt' = a.attempt
                /\ cStatus' = a.status
                /\ cTrace' = a.trace
                /\ cErrors' = a.errors
                /\ UNCHANGED cLog
    /\ UNCHANGED <<cNode, cClose>>

\* the connect request rejects with an axios error
CConnectFail(error) ==
    /\ cPc = "connect"
    /\ LET settings == getApiSettings(cNode.apiConfig)
           c == callVisionAPI_classify(error, settings.apiUrl \o "/api/camera/connect",
                                       settings.timeout)
       IN  cErrors' = cErrors \o callCameraAPI_errors(FALSE, c.errorMessage)
    /\ cPc' = Caught(cAttempt).pc
    /\ cAttempt' = Caught(cAttempt).attempt
    /\ cStatus' = Caught(cAttempt).status
    /\ UNCHANGED <<cNode, cLog, cTrace, cClose>>

\* the timer of the catch block fires after retryDelay: the next iteration
CTimer ==
    /\ cPc = "delay"
    /\ LET a == Attempt(cNode, cAttempt + 1, cStatus,
                        Append(cTrace, DelayWaited(DELAY_MS)), cErrors)
       IN  /\ cPc' = a.pc
           /\ cAttempt' = a.attempt
           /\ cStatus' = a.status
           /\ cTrace' = a.trace
           /\ cErrors' = a.errors
    /\ UNCHANGED <<cNode, cLog, cClose>>

\* the close handler up to its await: the disconnect request is sent for a
\* camera other than 'test'; done() is called at once when there is nothing to
\* disconnect or getApiSettings throws
CCloseBegin ==
    /\ cPc # "none"
    /\ cClose = "open"
    /\ cClose' = IF /\ cNode.cameraId # ""
                    /\ cNode.cameraId # "test"
                    /\ getApiSettings(cNode.apiConfig).ok
                 THEN "disconnecting"
                 ELSE "closed"
    /\ UNCHANGED <<cPc, cNode, cAttempt, cStatus, cErrors, cLog, cTrace>>

\* the disconnect request settles: logged when it resolved, ignored when it
\* rejected; done()
CCloseEnd(resolved) ==
    /\ cClose = "disconnecting"
    /\ cLog' = IF resolved
               THEN Append(cLog, "Camera disconnected: " \o cNode.cameraId)
               ELSE cLog
    /\ cClose' = "closed"
    /\ UNCHANGED <<cPc, cNode, cAttempt, cStatus, cErrors, cTrace>>

CCreateStep ==
    /\ cPc = "none"
    /\ \E config \in CameraConfigs : CCreate(config)
    /\ UNCHANGED <<rlVars, dVars, nVars, uVars, sVars, lVars, rVars, eVars, gVars>>

CHealthOkStep ==
    /\ CHealthOk
    /\ UNCHANGED <<rlVars, dVars, nVars, uVars, sVars, lVars, rVars, eVars, gVars>>

CHealthFailStep ==
    /\ cPc = "health"
    /\ \E error \in AxiosErrors : CHealthFail(error)
    /\ UNCHANGED <<rlVars, dVars, nVars, uVars, sVars, lVars, rVars, eVars, gVars>>

CConnectReplyStep ==
    /\ cPc = "connect"
    /\ \E result \in ConnectReplies : CConnectReply(result)
    /\ UNCHANGED <<rlVars, dVars, nVars, uVars, sVars, lVars, rVars, eVars, gVars>>

CConnectFailStep ==
    /\ cPc = "connect"
    /\ \E error \in AxiosErrors : CConnectFail(error)
    /\ UNCHANGED <<rlVars, dVars, nVars, uVars, sVars, lVars, rVars, eVars, gVars>>

CTimerStep ==
    /\ CTimer
    /\ UNCHANGED <<rlVars, dVars, nVars, uVars, sVars, lVars, rVars, eVars, gVars>>

CCloseBeginStep ==
    /\ CCloseBegin
    /\ UNCHANGED <<rlVars, dVars, nVars, uVars, sVars, lVars, rVars, eVars, gVars>>

CCloseEndStep ==
    /\ \E resolved \in BOOLEAN : CCloseEnd(resolved)
    /\ UNCHANGED <<rlVars, dVars, nVars, uVars, sVars, lVars, rVars, eVars, gVars>>

\* the requests and the timer of the bootstrap settling
CSettle ==
    \/ CHealthOkStep
    \/ CHealthFailStep
    \/ CConnectReplyStep
    \/ CConnectFailStep
    \/ CTimerStep

CNext ==
    \/ CCreateStep
    \/ CHealthOkStep
    \/ CHealthFailStep
    \/ CConnectReplyStep
    \/ CConnectFailStep
    \/ CTimerStep
    \/ CCloseBeginStep
    \/ CCloseEndStep

(***************************************************************************)
(* Image simulator node: auto-trigger timer, captures, close handler       *)
(***************************************************************************)
MaxCaptures == 3

\* the configurations of an image simulator node
SimulatorConfigs ==
    [apiConfig : CameraApiConfigs, autoTrigger : BOOLEAN,
     triggerInterval : {Undefined, Str("250")}]

\* what the constructor stores
SimulatorNode(config) ==
    [apiConfig |-> config.apiConfig,
     autoTrigger |-> config.autoTrigger,
     triggerInterval |-> IF config.triggerInterval = Str("250") THEN 250 ELSE 5000]

NoSimulator == [apiConfig |-> NoConfig, autoTrigger |-> FALSE, triggerInterval |-> 0]

\* msg.payload of an input
SimulatorPayloads == {"start", "stop", "other"}

\* the settlements of axios.post: response.data.success true or false, or a
\* rejection
CaptureReplies == {"success", "no-success", "rejected"}

\* the statuses the node sets itself
SimStatus(fill, shape, text) == [fill |-> fill, shape |-> shape, text |-> text]

\* startAutoTrigger(): a new interval timer, its id stored in node.intervalId
StartedTimer(created) == created + 1

\* the `start' branch with its test of node.intervalId left out
StartsTimer_always(intervalId) == TRUE

\* `if (!node.intervalId)' of the `start' branch
StartsTimer(intervalId) == intervalId = 0

\* stopAutoTrigger(): the timers left active, node.intervalId afterwards 0
stopAutoTrigger(intervalId, timers) == IF intervalId # 0 THEN timers \ {intervalId} ELSE timers

\* captureTestImage() up to its await: without a config it throws into its
\* own catch block, else the status is generating and the request is sent
CaptureBegun(node, origin, pending) ==
    IF ~node.apiConfig.present
    THEN [status |-> SimStatus("red", "dot", "generation failed"), errors |-> 1,
          pending |-> pending, returned |-> TRUE]
    ELSE [status |-> SimStatus("blue", "dot", "generating..."), errors |-> 0,
          pending |-> [pending EXCEPT ![origin] = @ + 1], returned |-> FALSE]

SInit ==
    /\ sPc = "none"
    /\ sNode = NoSimulator
    /\ sIntervalId = 0
    /\ sTimers = {}
    /\ sCreated = 0
    /\ sStatus = StatusNone
    /\ sPending = [input |-> 0, timer |-> 0]
    /\ sCaptures = 0
    /\ sSent = 0
    /\ sErrors = 0
    /\ sDone = 0
    /\ sLast = "none"

\* the constructor: status ready, and startAutoTrigger() when autoTrigger is set
SCreate(config) ==
    /\ sPc = "none"
    /\ sPc' = "open"
    /\ sNode' = SimulatorNode(config)
    /\ IF config.autoTrigger
       THEN /\ sIntervalId' = StartedTimer(sCreated)
            /\ sTimers' = sTimers \cup {StartedTimer(sCreated)}
            /\ sCreated' = sCreated + 1
            /\ sStatus' = SimStatus("green", "dot",
                              "auto: " \o ToString(SimulatorNode(config).triggerInterval) \o "ms")
       ELSE /\ sStatus' = SimStatus("grey", "ring", "ready")
            /\ UNCHANGED <<sIntervalId, sTimers, sCreated>>
    /\ UNCHANGED <<sPending, sCaptures, sSent, sErrors, sDone, sLast>>

\* an input: the first listener calls captureTestImage() and, once that has
\* returned, done(); the second listener starts or stops the auto-trigger
SInput(payload) ==
    /\ sPc = "open"
    /\ sCaptures < MaxCaptures
    /\ LET c == CaptureBegun(sNode, "input", sPending)
       IN  /\ sPending' = c.pending
           /\ sErrors' = sErrors + c.errors
           /\ sDone' = IF c.returned THEN sDone + 1 ELSE sDone
           /\ sCaptures' = sCaptures + 1
           /\ IF payload = "start"
              THEN IF StartsTimer(sIntervalId)
                   THEN /\ sIntervalId' = StartedTimer(sCreated)
                        /\ sTimers' = sTimers \cup {StartedTimer(sCreated)}
                        /\ sCreated' = sCreated + 1
                        /\ sStatus' = SimStatus("green", "dot",
                                          "auto: " \o ToString(sNode.triggerInterval) \o "ms")
                   ELSE /\ sStatus' = c.status
                        /\ UNCHANGED <<sIntervalId, sTimers, sCreated>>
              ELSE IF payload = "stop"
              THEN /\ sTimers' = stopAutoTrigger(sIntervalId, sTimers)
                   /\ sIntervalId' = 0
                   /\ sStatus' = SimStatus("grey", "ring", "stopped")
                   /\ UNCHANGED sCreated
              ELSE /\ sStatus' = c.status
                   /\ UNCHANGED <<sIntervalId, sTimers, sCreated>>
    /\ sLast' = payload
    /\ UNCHANGED <<sPc, sNode, sSent>>

\* an active interval timer fires: captureTestImage()
STimerFires ==
    /\ sTimers # {}
    /\ sCaptures < MaxCaptures
    /\ LET c == CaptureBegun(sNode, "timer", sPending)
       IN  /\ sPending' = c.pending
           /\ sErrors' = sErrors + c.errors
           /\ sStatus' = c.status
    /\ sCaptures' = sCaptures + 1
    /\ UNCHANGED <<sPc, sNode, sIntervalId, sTimers, sCreated, sSent, sDone, sLast>>

\* axios.post of a capture settles: the message is sent on success, the error
\* reported on rejection, and done() called when an input began the capture
SCaptureSettles(origin, reply) ==
    /\ sPending[origin] > 0
    /\ sPending' = [sPending EXCEPT ![origin] = @ - 1]
    /\ sSent' = IF reply = "success" THEN sSent + 1 ELSE sSent
    /\ sErrors' = IF reply = "rejected" THEN sErrors + 1 ELSE sErrors
    /\ sStatus' = IF reply = "success" THEN SimStatus("green", "dot", "image generated")
                  ELSE IF reply = "rejected" THEN SimStatus("red", "dot", "generation failed")
                  ELSE sStatus
    /\ sDone' = IF origin = "input" THEN sDone + 1 ELSE sDone
    /\ UNCHANGED <<sPc, sNode, sIntervalId, sTimers, sCreated, sCaptures, sLast>>

\* the close handler: stopAutoTrigger(), node.status({}), done()
SClose ==
    /\ sPc = "open"
    /\ sTimers' = stopAutoTrigger(sIntervalId, sTimers)
    /\ sIntervalId' = 0
    /\ sStatus' = StatusNone
    /\ sPc' = "closed"
    /\ sLast' = "close"
    /\ UNCHANGED <<sNode, sCreated, sPending, sCaptures, sSent, sErrors, sDone>>

SCreateStep ==
    /\ sPc = "none"
    /\ \E config \in SimulatorConfigs : SCreate(config)
    /\ UNCHANGED <<rlVars, dVars, nVars, uVars, cVars, lVars, rVars, eVars, gVars>>

SInputStep ==
    /\ sPc = "open"
    /\ \E payload \in SimulatorPayloads : SInput(payload)
    /\ UNCHANGED <<rlVars, dVars, nVars, uVars, cVars, lVars, rVars, eVars, gVars>>

STimerFiresStep ==
    /\ STimerFires
    /\ UNCHANGED <<rlVars, dVars, nVars, uVars, cVars, lVars, rVars, eVars, gVars>>

SCaptureSettlesStep ==
    /\ \E origin \in {"input", "timer"}, reply \in CaptureReplies : SCaptureSettles(origin, reply)
    /\ UNCHANGED <<rlVars, dVars, nVars, uVars, cVars, lVars, rVars, eVars, gVars>>

SCloseStep ==
    /\ SClose
    /\ UNCHANGED <<rlVars, dVars, nVars, uVars, cVars, lVars, rVars, eVars, gVars>>

SNext ==
    \/ SCreateStep
    \/ SInputStep
    \/ STimerFiresStep
    \/ SCaptureSettlesStep
    \/ SCloseStep

(***************************************************************************)
(* Live preview node: start, stop, camera switch, timers, close handler    *)
(***************************************************************************)
MaxInputs == 2

\* CONSTANTS.CAMERA.DEFAULT_ID
DEFAULT_ID == "test"

\* the camera ids of configurations and messages; "" is a missing id
CameraIds == {DEFAULT_ID, "cam1"}

\* the apiConfig of the live preview node: a config node
LiveApiConfig == [present |-> TRUE, apiUrl |-> "http://backend:9000", timeout |-> 5000]

\* the configurations of a live preview node
LiveConfigs == [cameraId : {"", "cam1"}, autoStart : BOOLEAN]

\* the inputs: a start command (with or without a camera id), a stop
\* command, a camera selection, and any other message (toggle)
LiveInputs ==
    [command : {"start"}, camera_id : CameraIds \cup {""}]
        \cup [command : {"stop", "toggle"}, camera_id : {""}]
        \cup [command : {"select"}, camera_id : CameraIds]

\* `${apiUrl}/api/camera/stream/${cameraId}`
StreamUrlOf(cameraId) ==
    getApiSettings(LiveApiConfig).apiUrl \o "/api/camera/stream/" \o cameraId

\* the node's mutable state as one record
LiveState ==
    [cameraId |-> lCameraId, active |-> lStreamActive, url |-> lStreamUrl,
     status |-> lStatus, sent |-> lSent, errors |-> lErrors, tasks |-> lTasks,
     timers |-> lTimers, done |-> lDone]

\* a backend call being awaited: kind "connect" or "stop", the camera it
\* addresses, emitMessage of stopStream, and the continuation of the caller:
\* then "done" (done()), "restart" (setTimeout of startStream(arg), done()),
\* "restartNode" (setTimeout of startStream(node.cameraId), done()), "start"
\* (the rest of startStream(arg)), "none"; origin tells whether an input
\* handler awaits the whole
Task(kind, camera, emit, then, arg, origin) ==
    [kind |-> kind, camera |-> camera, emit |-> emit, then |-> then, arg |-> arg,
     origin |-> origin]

\* emitState({streaming, cameraId}): the message sent
emitState(st, streaming, cameraId) ==
    [st EXCEPT !.sent = Append(@,
        [streaming |-> streaming,
         camera_id |-> IF cameraId # "" THEN cameraId ELSE st.cameraId,
         stream_url |-> IF streaming THEN st.url ELSE ""])]

\* an input handler's done() after the awaited call returned
Finished(st, origin) ==
    IF origin = "input" THEN [st EXCEPT !.done = @ + 1] ELSE st

\* startStream after a successful ensureCameraConnected
StreamStarted(st, cameraId, origin) ==
    Finished(emitState([st EXCEPT !.url = StreamUrlOf(cameraId),
                                  !.active = TRUE,
                                  !.status = setNodeStatus("success", "Streaming: " \o cameraId, <<>>)],
                       TRUE, cameraId),
             origin)

\* the catch block of ensureCameraConnected, swallowed by startStream
ConnectFailed(st, cameraId, origin) ==
    Finished(emitState([st EXCEPT !.status = setNodeStatus("error", "Connect failed", <<>>),
                                  !.errors = @ + 1],
                       FALSE, cameraId),
             origin)

\* startStream from `node.cameraId = cameraId' on: the default camera needs
\* no connect call, any other awaits /api/camera/connect
StartConnecting(st, cameraId, origin) ==
    IF cameraId = DEFAULT_ID
    THEN StreamStarted([st EXCEPT !.cameraId = cameraId], cameraId, origin)
    ELSE [st EXCEPT !.cameraId = cameraId,
                    !.tasks = Append(@, Task("connect", cameraId, FALSE, "done", "", origin))]

\* what the caller of stopStream does once it has returned
AfterStop(st, then, arg, origin) ==
    CASE then = "done" -> Finished(st, origin)
      [] then = "restart" ->
            Finished([st EXCEPT !.timers = Append(@, arg)], origin)
      [] then = "restartNode" ->
            Finished([st EXCEPT !.timers = Append(@, "node.cameraId")], origin)
      [] then = "start" -> StartConnecting(st, arg, origin)
      [] OTHER -> st

\* stopStream after its backend call: the flags are reset, the status is
\* ready/stopped, the stop message is sent when emitMessage is set
StreamStopped(st, activeCamera, emit) ==
    LET s1 == [st EXCEPT !.active = FALSE, !.url = "",
                         !.status = setNodeStatus("ready", "stopped", <<>>)]
    IN  IF emit THEN emitState(s1, FALSE, activeCamera) ELSE s1

\* stopStream({emitMessage}) up to its await, with the caller's continuation:
\* the stop endpoint is called for node.cameraId when a stream is active
stopStream(st, emit, then, arg, origin) ==
    IF st.active /\ st.cameraId # ""
    THEN [st EXCEPT !.tasks = Append(@, Task("stop", st.cameraId, emit, then, arg, origin))]
    ELSE AfterStop(StreamStopped(st, st.cameraId, emit), then, arg, origin)

\* startStream(cameraId) up to its first await
startStream(st, cameraId, origin) ==
    IF cameraId = ""
    THEN Finished([st EXCEPT !.errors = @ + 1,
                             !.status = setNodeStatus("error", "no camera", <<>>)], origin)
    ELSE IF st.active
    THEN IF st.cameraId = cameraId
         THEN Finished(emitState(st, TRUE, cameraId), origin)
         ELSE stopStream(st, TRUE, "start", cameraId, origin)
    ELSE StartConnecting(st, cameraId, origin)

\* the input handler up to its first await
OnLiveInput(st, msg) ==
    CASE msg.command = "start" ->
            LET cameraId == IF msg.camera_id # "" THEN msg.camera_id ELSE st.cameraId
            IN  IF ~st.active
                THEN startStream(st, cameraId, "input")
                ELSE IF st.cameraId # cameraId
                THEN stopStream(st, TRUE, "restart", cameraId, "input")
                ELSE Finished(emitState(st, TRUE, cameraId), "input")
      [] msg.command = "stop" -> stopStream(st, TRUE, "done", "", "input")
      [] msg.command = "select" ->
            LET s1 == [st EXCEPT !.cameraId = msg.camera_id]
            IN  IF s1.active
                THEN stopStream(s1, TRUE, "restartNode", "", "input")
                ELSE Finished(s1, "input")
      [] OTHER ->
            IF st.active
            THEN stopStream(st, TRUE, "done", "", "input")
            ELSE startStream(st, st.cameraId, "input")

\* the awaited call of task t settles, resolved or rejected
OnLiveSettled(st, t, resolved) ==
    IF t.kind = "connect"
    THEN IF resolved
         THEN StreamStarted(st, t.camera, t.origin)
         ELSE ConnectFailed(st, t.camera, t.origin)
    ELSE AfterStop(StreamStopped(st, t.camera, t.emit), t.then, t.arg, t.origin)

\* a sequence without its i-th element
Without(seq, i) == SubSeq(seq, 1, i - 1) \o SubSeq(seq, i + 1, Len(seq))

\* the node's fields take the values of the record
LiveBecomes(st) ==
    /\ lCameraId' = st.cameraId
    /\ lStreamActive' = st.active
    /\ lStreamUrl' = st.url
    /\ lStatus' = st.status
    /\ lSent' = st.sent
    /\ lErrors' = st.errors
    /\ lTasks' = st.tasks
    /\ lTimers' = st.timers
    /\ lDone' = st.done

LInit ==
    /\ lPc = "none"
    /\ lCameraId = ""
    /\ lStreamActive = FALSE
    /\ lStreamUrl = ""
    /\ lStatus = StatusNone
    /\ lSent = <<>>
    /\ lErrors = 0
    /\ lTasks = <<>>
    /\ lTimers = <<>>
    /\ lDone = 0
    /\ lInputs = 0

\* the constructor: status ready; the auto-start timer is set, or the
\* initial state message is sent
LCreate(config) ==
    /\ lPc = "none"
    /\ lPc' = "open"
    /\ LET s1 == [LiveState EXCEPT
                     !.cameraId = IF config.cameraId # "" THEN config.cameraId ELSE DEFAULT_ID,
                     !.status = setNodeStatus("ready", "", <<>>)]
       IN  LiveBecomes(IF config.autoStart
                       THEN [s1 EXCEPT !.timers = Append(@, "node.cameraId")]
                       ELSE emitState(s1, FALSE, s1.cameraId))
    /\ UNCHANGED lInputs

\* an input arrives: the handler runs up to its first await
LInput(msg) ==
    /\ lPc = "open"
    /\ lInputs < MaxInputs
    /\ lInputs' = lInputs + 1
    /\ LiveBecomes(OnLiveInput(LiveState, msg))
    /\ UNCHANGED lPc

\* a timer fires: startStream of the camera it was set for, or of
\* node.cameraId as it is now
LTimerFires(i) ==
    /\ i \in 1..Len(lTimers)
    /\ LET s1 == [LiveState EXCEPT !.timers = Without(lTimers, i)]
       IN  LiveBecomes(startStream(s1, IF lTimers[i] = "node.cameraId"
                                       THEN s1.cameraId ELSE lTimers[i], "timer"))
    /\ UNCHANGED <<lPc, lInputs>>

\* an awaited backend call settles and its caller goes on
LSettles(i, resolved) ==
    /\ i \in 1..Len(lTasks)
    /\ LET s1 == [LiveState EXCEPT !.tasks = Without(lTasks, i)]
       IN  LiveBecomes(OnLiveSettled(s1, lTasks[i], resolved))
    /\ UNCHANGED <<lPc, lInputs>>

\* the close handler: stopStream({emitMessage: false}) when a stream is
\* active, not awaited; done()
LClose ==
    /\ lPc = "open"
    /\ lPc' = "closed"
    /\ LiveBecomes(IF lStreamActive
                   THEN stopStream(LiveState, FALSE, "none", "", "close")
                   ELSE LiveState)
    /\ UNCHANGED lInputs

LCreateStep ==
    /\ lPc = "none"
    /\ \E config \in LiveConfigs : LCreate(config)
    /\ UNCHANGED <<rlVars, dVars, nVars, uVars, cVars, sVars, rVars, eVars, gVars>>

LInputStep ==
    /\ lPc = "open"
    /\ \E msg \in LiveInputs : LInput(msg)
    /\ UNCHANGED <<rlVars, dVars, nVars, uVars, cVars, sVars, rVars, eVars, gVars>>

LTimerFiresStep ==
    /\ \E i \in 1..Len(lTimers) : LTimerFires(i)
    /\ UNCHANGED <<rlVars, dVars, nVars, uVars, cVars, sVars, rVars, eVars, gVars>>

LSettlesStep ==
    /\ \E i \in 1..Len(lTasks), resolved \in BOOLEAN : LSettles(i, resolved)
    /\ UNCHANGED <<rlVars, dVars, nVars, uVars, cVars, sVars, rVars, eVars, gVars>>

LCloseStep ==
    /\ LClose
    /\ UNCHANGED <<rlVars, dVars, nVars, uVars, cVars, sVars, rVars, eVars, gVars>>

LNext ==
    \/ LCreateStep
    \/ LInputStep
    \/ LTimerFiresStep
    \/ LSettlesStep
    \/ LCloseStep

(***************************************************************************)
(* ROI extract node: validation of the image id and of the ROI, request    *)
(***************************************************************************)
\* the values of config.roi: each field unset, a number, or a decimal string
ExtractRois ==
    [x : {Undefined, Num(-1), Num(2)}, y : {Undefined, Num(1)},
     width : {Undefined, Num(-1), Str("1")}, height : {Undefined, Num(0)}]

\* the configurations of a roi-extract node ("" is roiMode unset)
ExtractNodes ==
    [apiConfig : CameraApiConfigs, roi : ExtractRois, roiMode : {"", "relative"}]

NoExtractNode ==
    [apiConfig |-> NoConfig,
     roi |-> [x |-> Undefined, y |-> Undefined, width |-> Undefined, height |-> Undefined],
     roiMode |-> ""]

\* msg.payload.image_id: missing, empty, well-formed, with path characters,
\* and each of them longer than the limit
ExtractImageIds ==
    {Undefined} \cup
    [kind : {"string"}, chars : {<<>>, <<"a">>, <<".", ".">>, <<"/">>}, pad : {0, MaxIdLength}]

\* msg.payload.bounding_box: missing, or an object whose x and y are a
\* number, a string or missing
ExtractBoxes ==
    {Undefined} \cup
    [kind : {"object"}, x : {Undefined, Num(0), Num(-3), AString}, y : {Undefined, Num(0)}]

\* the input messages: without a payload, or with a payload object
ExtractMsgs ==
    {[payload |-> FALSE, image_id |-> Undefined, bounding_box |-> Undefined]} \cup
    [payload : {TRUE}, image_id : ExtractImageIds, bounding_box : ExtractBoxes]

NoExtractMsg == [payload |-> FALSE, image_id |-> Undefined, bounding_box |-> Undefined]

\* the replies of /api/image/extract-roi: with or without a bounding_box
ExtractReplies == {"box", "no-box"}

\* `a + b' for a number b: a sum, NaN for undefined or NaN, a string for a string
JsPlus(a, b) ==
    IF a.kind = "string" THEN AString
    ELSE IF a.kind = "number" /\ ~a.nan THEN Num(a.n + b)
    ELSE NaN

\* `!imageId'
IdIsFalsy(id) == id = Undefined \/ (Len(id.chars) = 0 /\ id.pad = 0)

\* configRoi: each field `parseInt(node.roi.f) || CONSTANTS.ROI.DEFAULT_F'
configRoi(node) ==
    [x |-> ParseIntOr(node.roi.x, 0),
     y |-> ParseIntOr(node.roi.y, 0),
     width |-> ParseIntOr(node.roi.width, 100),
     height |-> ParseIntOr(node.roi.height, 100)]

\* bounding_box: the input box offset by configRoi in relative mode, else configRoi
bounding_box(node, msg) ==
    IF node.roiMode = "relative" /\ msg.bounding_box # Undefined
    THEN [kind |-> "object",
          x |-> JsPlus(msg.bounding_box.x, configRoi(node).x),
          y |-> JsPlus(msg.bounding_box.y, configRoi(node).y),
          width |-> Num(configRoi(node).width),
          height |-> Num(configRoi(node).height)]
    ELSE [kind |-> "object",
          x |-> Num(configRoi(node).x),
          y |-> Num(configRoi(node).y),
          width |-> Num(configRoi(node).width),
          height |-> Num(configRoi(node).height)]

\* validateROI as the node calls it, without options
NoRoiOptions == [maxWidth |-> Undefined, maxHeight |-> Undefined]

\* the handler up to the call of callImageAPI: the error it throws and the
\* error status it sets first, or ok
ExtractChecks(node, msg) ==
    IF ~msg.payload \/ IdIsFalsy(msg.image_id)
    THEN [ok |-> FALSE, status |-> "", error |-> "No image_id in msg.payload"]
    ELSE IF ~validateImageId(msg.image_id).valid
    THEN [ok |-> FALSE, status |-> "invalid image_id",
          error |-> validateImageId(msg.image_id).error]
    ELSE IF ~validateROI(bounding_box(node, msg), NoRoiOptions).valid
    THEN [ok |-> FALSE, status |-> "invalid ROI",
          error |-> validateROI(bounding_box(node, msg), NoRoiOptions).error]
    ELSE [ok |-> TRUE, status |-> "", error |-> ""]

\* requestData
ExtractRequest(node, msg) == [image_id |-> msg.image_id, roi |-> bounding_box(node, msg)]

RInit ==
    /\ rPc = "none"
    /\ rNode = NoExtractNode
    /\ rMsg = NoExtractMsg
    /\ rRequests = <<>>
    /\ rStatus = StatusNone
    /\ rErrors = <<>>
    /\ rDone = <<>>
    /\ rSent = 0

\* the constructor
RCreate(node) ==
    /\ rPc = "none"
    /\ rNode' = node
    /\ rStatus' = setNodeStatus("ready", "", <<>>)
    /\ rPc' = "idle"
    /\ UNCHANGED <<rMsg, rRequests, rErrors, rDone, rSent>>

\* an input arrives at the idle node
RArrives(msg) ==
    /\ rPc = "idle"
    /\ rMsg' = msg

\* an input that fails a check: the error is thrown into the catch block,
\* which hands it to done
RInputRejected(msg) ==
    /\ RArrives(msg)
    /\ ~ExtractChecks(rNode, msg).ok
    /\ rStatus' = IF ExtractChecks(rNode, msg).status # ""
                  THEN setNodeStatus("error", ExtractChecks(rNode, msg).status, <<>>)
                  ELSE rStatus
    /\ rDone' = <<DoneError(ExtractChecks(rNode, msg).error)>>
    /\ rRequests' = <<>>
    /\ rErrors' = <<>>
    /\ rSent' = 0
    /\ rPc' = "finished"
    /\ UNCHANGED rNode

\* an input that passes the checks on a node without a config: callImageAPI
\* reports, calls done and rethrows; the error has no response, so the catch
\* block calls done again
RInputNoConfig(msg) ==
    /\ RArrives(msg)
    /\ ExtractChecks(rNode, msg).ok
    /\ ~getApiSettings(rNode.apiConfig).ok
    /\ rRequests' = <<>>
    /\ rStatus' = setNodeStatus("error", "no config", <<>>)
    /\ rErrors' = <<MissingConfigMessage>>
    /\ rDone' = <<DoneError(MissingConfigMessage), DoneError(MissingConfigMessage)>>
    /\ rSent' = 0
    /\ rPc' = "finished"
    /\ UNCHANGED rNode

\* an input that passes the checks: status processing, the request is sent
RInputSend(msg) ==
    /\ RArrives(msg)
    /\ ExtractChecks(rNode, msg).ok
    /\ getApiSettings(rNode.apiConfig).ok
    /\ rRequests' = <<ExtractRequest(rNode, msg)>>
    /\ rStatus' = setNodeStatus("processing", "extracting ROI...", <<>>)
    /\ rErrors' = <<>>
    /\ rDone' = <<>>
    /\ rSent' = 0
    /\ rPc' = "awaiting"
    /\ UNCHANGED rNode

\* the request resolves: status success, the message is sent, done(); a
\* reply without bounding_box throws a TypeError into the catch block
RResponse(reply) ==
    /\ rPc = "awaiting"
    /\ IF reply = "box"
       THEN /\ rStatus' = setNodeStatus("success", "ROI extracted: 1x1", <<"0">>)
            /\ rSent' = 1
            /\ rDone' = <<DoneOk>>
       ELSE /\ rDone' = <<DoneError(TypeErrorReadingOf(Undefined, "width"))>>
            /\ UNCHANGED <<rStatus, rSent>>
    /\ rPc' = "finished"
    /\ UNCHANGED <<rNode, rMsg, rRequests, rErrors>>

\* the request rejects: callImageAPI reports, calls done and rethrows; the
\* catch block calls done again unless the error has a response
RFailure(error) ==
    /\ rPc = "awaiting"
    /\ LET settings == getApiSettings(rNode.apiConfig)
           c == Classify("image", error, settings.apiUrl \o "/api/image/extract-roi",
                         settings.timeout)
       IN  /\ rStatus' = setNodeStatus("error", c.statusMessage, <<>>)
           /\ rErrors' = <<c.errorMessage>>
           /\ rDone' = IF error.response
                       THEN <<DoneError(c.errorMessage)>>
                       ELSE <<DoneError(c.errorMessage), DoneError(error.message)>>
    /\ rPc' = "finished"
    /\ UNCHANGED <<rNode, rMsg, rRequests, rSent>>

\* the handler has returned: the node is idle again, and what was observed
\* for the input is forgotten
RNextInput ==
    /\ rPc = "finished"
    /\ rPc' = "idle"
    /\ rMsg' = NoExtractMsg
    /\ rRequests' = <<>>
    /\ rErrors' = <<>>
    /\ rDone' = <<>>
    /\ rSent' = 0
    /\ UNCHANGED <<rNode, rStatus>>

RCreateStep ==
    /\ rPc = "none"
    /\ \E node \in ExtractNodes : RCreate(node)
    /\ UNCHANGED <<rlVars, dVars, nVars, uVars, cVars, sVars, lVars, eVars, gVars>>

RInputRejectedStep ==
    /\ rPc = "idle"
    /\ \E msg \in ExtractMsgs : RInputRejected(msg)
    /\ UNCHANGED <<rlVars, dVars, nVars, uVars, cVars, sVars, lVars, eVars, gVars>>

RInputNoConfigStep ==
    /\ rPc = "idle"
    /\ \E msg \in ExtractMsgs : RInputNoConfig(msg)
    /\ UNCHANGED <<rlVars, dVars, nVars, uVars, cVars, sVars, lVars, eVars, gVars>>

RInputSendStep ==
    /\ rPc = "idle"
    /\ \E msg \in ExtractMsgs : RInputSend(msg)
    /\ UNCHANGED <<rlVars, dVars, nVars, uVars, cVars, sVars, lVars, eVars, gVars>>

RResponseStep ==
    /\ rPc = "awaiting"
    /\ \E reply \in ExtractReplies : RResponse(reply)
    /\ UNCHANGED <<rlVars, dVars, nVars, uVars, cVars, sVars, lVars, eVars, gVars>>

RFailureStep ==
    /\ rPc = "awaiting"
    /\ \E error \in AxiosErrors : RFailure(error)
    /\ UNCHANGED <<rlVars, dVars, nVars, uVars, cVars, sVars, lVars, eVars, gVars>>

RNextInputStep ==
    /\ RNextInput
    /\ UNCHANGED <<rlVars, dVars, nVars, uVars, cVars, sVars, lVars, eVars, gVars>>

RNext ==
    \/ RCreateStep
    \/ RNextInputStep
    \/ RInputRejectedStep
    \/ RInputNoConfigStep
    \/ RInputSendStep
    \/ RResponseStep
    \/ RFailureStep

(***************************************************************************)
(* Concurrent dispatches of the multi-object vision nodes (template-match, *)
(* edge-detect): several input handlers may be suspended at their single   *)
(* `await callVisionAPI`; a handler resumed by its response runs its send  *)
(* loop on the one JavaScript thread.                                      *)
(***************************************************************************)
MaxDispatches == 3

\* the node instances that share the runtime
EmitNodes == 1..2

\* an element of result.objects: TRUE is an object, FALSE is null
\* (createVisionObjectMessage reads obj.object_id and throws on null)
EmitObjects ==
    UNION {[1..k -> BOOLEAN] : k \in 0..MaxObjects}

\* whether the body of the send loop suspends the handler after send(outputMsg):
\* the loop holds no await, the handler keeps the thread until it returns
AwaitsAfterSend_yields(i) == TRUE

AwaitsAfterSend(i) == FALSE

EInit ==
    /\ eIssued = 0
    /\ eInFlight = {}
    /\ eLoops = {}
    /\ eRunning = 0
    /\ eOut = <<>>

\* node.on('input') up to `await callVisionAPI(...)`: the request leaves
EDispatch(node) ==
    /\ eRunning = 0
    /\ eIssued < MaxDispatches
    /\ eIssued' = eIssued + 1
    /\ eInFlight' = eInFlight \cup {[id |-> eIssued + 1, node |-> node]}
    /\ UNCHANGED <<eLoops, eRunning, eOut>>

\* the response of one dispatch arrives: the handler resumes after the await;
\* zero objects return at once, otherwise the handler enters its loop
EResponse(call, objects) ==
    /\ eRunning = 0
    /\ call \in eInFlight
    /\ eInFlight' = eInFlight \ {call}
    /\ IF Len(objects) = 0
       THEN UNCHANGED <<eLoops, eRunning>>
       ELSE /\ eLoops' = eLoops \cup
                  {[id |-> call.id, node |-> call.node, i |-> 1, objects |-> objects]}
            /\ eRunning' = call.id
    /\ UNCHANGED <<eIssued, eOut>>

\* callVisionAPI rejects: the catch block runs, nothing is sent
EFailure(call) ==
    /\ eRunning = 0
    /\ call \in eInFlight
    /\ eInFlight' = eInFlight \ {call}
    /\ UNCHANGED <<eIssued, eLoops, eRunning, eOut>>

\* one iteration of `for (let i = 0; i < result.objects.length; i++)`:
\* a null element throws out of the loop, an object is sent; after the last
\* iteration the handler sets its status, calls done and returns
ESend(loop) ==
    /\ loop \in eLoops
    /\ eRunning \in {0, loop.id}
    /\ IF ~loop.objects[loop.i]
       THEN /\ eLoops' = eLoops \ {loop}
            /\ eRunning' = 0
            /\ eOut' = eOut
       ELSE /\ eOut' = Append(eOut, [id |-> loop.id, node |-> loop.node, index |-> loop.i])
            /\ IF loop.i = Len(loop.objects)
               THEN /\ eLoops' = eLoops \ {loop}
                    /\ eRunning' = 0
               ELSE /\ eLoops' = (eLoops \ {loop}) \cup {[loop EXCEPT !.i = loop.i + 1]}
                    /\ eRunning' = IF AwaitsAfterSend(loop.i) THEN 0 ELSE loop.id
    /\ UNCHANGED <<eIssued, eInFlight>>

EDispatchStep ==
    /\ \E node \in EmitNodes : EDispatch(node)
    /\ UNCHANGED <<rlVars, dVars, nVars, uVars, cVars, sVars, lVars, rVars, gVars>>

EResponseStep ==
    /\ eRunning = 0
    /\ \E call \in eInFlight, objects \in EmitObjects : EResponse(call, objects)
    /\ UNCHANGED <<rlVars, dVars, nVars, uVars, cVars, sVars, lVars, rVars, gVars>>

EFailureStep ==
    /\ \E call \in eInFlight : EFailure(call)
    /\ UNCHANGED <<rlVars, dVars, nVars, uVars, cVars, sVars, lVars, rVars, gVars>>

ESendStep ==
    /\ \E loop \in eLoops : ESend(loop)
    /\ UNCHANGED <<rlVars, dVars, nVars, uVars, cVars, sVars, lVars, rVars, gVars>>

ENext ==
    \/ EDispatchStep
    \/ EResponseStep
    \/ EFailureStep
    \/ ESendStep

(***************************************************************************)
(* rotation-detect: the normalisation of the relative rotation, one loop   *)
(* iteration per step, on IEEE-754 doubles                                 *)
(***************************************************************************)
MaxAngle == 400

\* a double: a whole number of small magnitude (exact), or plus or minus
\* 2^63, a finite double whose neighbours are 1024 and 2048 away
Dbl(n) == [class |-> "exact", n |-> n]

Huge(sign) == [class |-> "huge", n |-> sign]

\* a + k and a - b for |k|, |b| <= 2 * MaxAngle: exact on small whole
\* numbers; 2^63 plus or minus less than 512 rounds back to 2^63
DAdd(a, k) ==
    IF a.class = "exact" THEN Dbl(a.n + k) ELSE a

DSub(a, b) ==
    IF a.class = "exact" THEN Dbl(a.n - b.n) ELSE a

\* a < k and a > k, a >= k for a small whole number k
DLess(a, k) ==
    IF a.class = "exact" THEN a.n < k ELSE a.n < 0

DGreater(a, k) ==
    IF a.class = "exact" THEN a.n > k ELSE a.n > 0

DAtLeast(a, k) ==
    IF a.class = "exact" THEN a.n >= k ELSE a.n > 0

\* the three values of the angleRange setting
AngleRanges == {"0_360", "-180_180", "0_180"}

\* obj.rotation: any finite number
Rotations ==
    {Dbl(n) : n \in -MaxAngle..MaxAngle} \cup {Huge(1), Huge(-1)}

\* msg.reference_object: missing, with a rotation that is not a number, or
\* with a numeric rotation
RotationReferences ==
    {[present |-> FALSE], [present |-> TRUE, numeric |-> FALSE]}
    \cup {[present |-> TRUE, numeric |-> TRUE, rotation |-> Dbl(n)] :
              n \in {0, 90, 0 - 270, MaxAngle}}

\* `msg.reference_object && typeof msg.reference_object.rotation === 'number''
HasNumericReference(reference) ==
    reference.present /\ reference.numeric

\* the bound of the first loop, the step of both loops, and the test of the
\* second loop for each range
LowerBound(range) ==
    IF range = "-180_180" THEN 0 - 180 ELSE 0

Period(range) ==
    IF range = "0_180" THEN 180 ELSE 360

AboveRange(range, a) ==
    CASE range = "0_360" -> DAtLeast(a, 360)
      [] range = "-180_180" -> DGreater(a, 180)
      [] OTHER -> DAtLeast(a, 180)

GInit ==
    /\ gPc = "idle"
    /\ gRange = "0_360"
    /\ gRotation = Dbl(0)
    /\ gReference = [present |-> FALSE]
    /\ gAngle = Dbl(0)
    /\ gPayload = [rotation |-> Dbl(0)]

\* the reply has arrived with objects[0].rotation = rotation: the payload gets
\* its rotation; with a numeric reference, relativeAngle is computed and the
\* first loop is entered, otherwise the message is sent without the key
GReply(range, rotation, reference) ==
    /\ gPc = "idle"
    /\ gRange' = range
    /\ gRotation' = rotation
    /\ gReference' = reference
    /\ IF HasNumericReference(reference)
       THEN /\ gAngle' = DSub(rotation, reference.rotation)
            /\ gPayload' = [rotation |-> rotation]
            /\ gPc' = "raise"
       ELSE /\ gAngle' = gAngle
            /\ gPayload' = [rotation |-> rotation]
            /\ gPc' = "sent"

\* `while (relativeAngle < low) relativeAngle += period': one test of the
\* condition, and one iteration when it holds
GRaise ==
    /\ gPc = "raise"
    /\ IF DLess(gAngle, LowerBound(gRange))
       THEN /\ gAngle' = DAdd(gAngle, Period(gRange))
            /\ gPc' = "raise"
       ELSE /\ gAngle' = gAngle
            /\ gPc' = "lower"
    /\ UNCHANGED <<gRange, gRotation, gReference, gPayload>>

\* `while (relativeAngle >= high) relativeAngle -= period' (`>' for
\* '-180_180'): one test, and one iteration when it holds; when it fails the
\* handler sets rotation_relative and sends the message
GLower ==
    /\ gPc = "lower"
    /\ IF AboveRange(gRange, gAngle)
       THEN /\ gAngle' = DAdd(gAngle, 0 - Period(gRange))
            /\ gPc' = "lower"
            /\ gPayload' = gPayload
       ELSE /\ gAngle' = gAngle
            /\ gPc' = "sent"
            /\ gPayload' = [rotation |-> gRotation, rotation_relative |-> gAngle]
    /\ UNCHANGED <<gRange, gRotation, gReference>>

\* the handler has returned and its locals are gone; the next reply can be
\* handled
GNextInput ==
    /\ gPc = "sent"
    /\ gPc' = "idle"
    /\ gRange' = "0_360"
    /\ gRotation' = Dbl(0)
    /\ gReference' = [present |-> FALSE]
    /\ gAngle' = Dbl(0)
    /\ gPayload' = [rotation |-> Dbl(0)]

GReplyStep ==
    /\ gPc = "idle"
    /\ \E range \in AngleRanges, rotation \in Rotations, reference \in RotationReferences :
           GReply(range, rotation, reference)
    /\ UNCHANGED <<rlVars, dVars, nVars, uVars, cVars, sVars, lVars, rVars, eVars>>

GRaiseStep ==
    /\ GRaise
    /\ UNCHANGED <<rlVars, dVars, nVars, uVars, cVars, sVars, lVars, rVars, eVars>>

GLowerStep ==
    /\ GLower
    /\ UNCHANGED <<rlVars, dVars, nVars, uVars, cVars, sVars, lVars, rVars, eVars>>

GNextInputStep ==
    /\ GNextInput
    /\ UNCHANGED <<rlVars, dVars, nVars, uVars, cVars, sVars, lVars, rVars, eVars>>

GNext ==
    \/ GReplyStep
    \/ GRaiseStep
    \/ GLowerStep
    \/ GNextInputStep

(***************************************************************************)
(* Specifications                                                          *)
(***************************************************************************)
\* every component in its state after module load / construction
Init ==
    /\ RLInit
    /\ DInit
    /\ NInit
    /\ UInit
    /\ CInit
    /\ SInit
    /\ LInit
    /\ RInit
    /\ EInit
    /\ GInit

\* the rate limiter under any sequence of calls and any passing of time
SpecRL == Init /\ [][RLNext]_vars

\* one dispatcher call after another, with any options and any reply
SpecDispatch == Init /\ [][DNext]_vars

\* a vision node of any type and configuration handling one input after another
SpecNode == Init /\ [][NNext]_vars

\* the pure utilities called with any arguments, one call after another
SpecUtil == Init /\ [][UNext]_vars

\* a camera capture node of any configuration: its bootstrap with any replies,
\* and its close handler at any moment
SpecCamera == Init /\ [][CNext]_vars

\* the same with every request settling (axios resolves, or rejects at the
\* latest when its timeout expires) and every timer firing
SpecCameraLive == SpecCamera /\ WF_vars(CSettle)

\* an image simulator node of any configuration under any inputs, timer
\* firings, replies and close
SpecSimulator == Init /\ [][SNext]_vars

\* a live preview node of any configuration under any inputs, with its
\* backend calls settling and its timers firing in any order, and close
SpecLive == Init /\ [][LNext]_vars

\* a roi-extract node of any configuration handling one input after another
SpecExtract == Init /\ [][RNext]_vars

SpecEmit == Init /\ [][ENext]_vars

\* rotation-detect normalising the relative rotation of any reply, the
\* JavaScript thread always executing the next iteration of a running loop
SpecRotate ==
    Init /\ [][GNext]_vars /\ WF_vars(GRaiseStep) /\ WF_vars(GLowerStep)

(***************************************************************************)
(* Rate limiter: properties                                                *)
(***************************************************************************)
\* the number of calls of a window that returned true
NumAllowed(results) ==
    Cardinality({i \in 1..Len(results) : results[i]})

\* C1: in a window opened on a key the Map did not hold, whose calls all pass
\* the same maxRequests = N >= 1, the calls made before the deadline return
\* true for exactly the first N and false for every later one.
C1_FirstNAllowedThenDenied ==
    \A k \in Keys :
        (win[k].open /\ win[k].fresh /\ win[k].fixed /\ win[k].max >= 1)
            => \A i \in 1..Len(win[k].results) :
                   win[k].results[i] = (i <= win[k].max)

\* C1 witness: a fresh window with N = 2 in which a third call was denied
C1_Witness ==
    \E k \in Keys :
        /\ win[k].open /\ win[k].fresh /\ win[k].fixed
        /\ win[k].max = 2
        /\ win[k].results = <<TRUE, TRUE, FALSE>>

\* C2 (as claimed): for every maxRequests >= 0, the calls that return true
\* within one window never number more than maxRequests.
C2_AllowedNeverExceedsMax ==
    \A k \in Keys :
        (win[k].open /\ win[k].fixed)
            => NumAllowed(win[k].results) <= win[k].max

\* C3: the first call made at or after the deadline of an entry whose count had
\* reached maxRequests is allowed and leaves count = 1 and the deadline
\* now + windowMs.
C3_ExpiredWindowResets ==
    \A k \in Keys :
        (win[k].open /\ win[k].afterDenied /\ win[k].calls = 1)
            => /\ win[k].results = <<TRUE>>
               /\ k \in DOMAIN rateLimiters
               /\ rateLimiters[k] = [count |-> 1, resetAt |-> win[k].deadline]

\* C3 witness: a window opened at or after the deadline of an exhausted entry
C3_Witness ==
    \E k \in Keys :
        win[k].open /\ win[k].afterDenied /\ win[k].calls = 1 /\ ~win[k].fresh

\* a call on key k1: checkRateLimit with any arguments, or clearRateLimit
CallOn(k1) ==
    \/ \E maxRequests \in 0..MaxReq, windowMs \in 0..MaxWindow :
           CheckRateLimit(k1, maxRequests, windowMs)
    \/ ClearRateLimit(k1)

\* C4: a call on key k1 leaves the entry of every other key k2 as it was, and
\* leaves the result of every call that could next be made on k2 as it was.
C4_KeysIndependent ==
    [][\A k1 \in Keys :
          CallOn(k1) =>
              \A k2 \in Keys \ {k1} :
                  /\ (k2 \in DOMAIN rateLimiters') = (k2 \in DOMAIN rateLimiters)
                  /\ k2 \in DOMAIN rateLimiters => rateLimiters'[k2] = rateLimiters[k2]
                  /\ \A maxRequests \in 0..MaxReq, windowMs \in 0..MaxWindow :
                         checkRateLimit(rateLimiters', k2, maxRequests, windowMs, now').allowed
                             = checkRateLimit(rateLimiters, k2, maxRequests, windowMs, now).allowed]_vars

\* C4 witness: one key was cleared while the other holds an entry that has
\* counted more than one call
C4_Witness ==
    \E k1 \in Keys, k2 \in Keys :
        /\ k1 # k2
        /\ win[k1].cleared # "no"
        /\ k2 \in DOMAIN rateLimiters
        /\ rateLimiters[k2].count > 1

\* C5: the first checkRateLimit call after clearRateLimit(key) returns true and
\* leaves count = 1 and the deadline now + windowMs, as a call on a key never
\* seen does.
C5_ClearReenables ==
    \A k \in Keys :
        (win[k].open /\ win[k].afterClear # "no" /\ win[k].calls = 1)
            => /\ win[k].results = <<TRUE>>
               /\ win[k].fresh
               /\ k \in DOMAIN rateLimiters
               /\ rateLimiters[k] = [count |-> 1, resetAt |-> win[k].deadline]

\* C5 witness: a window opened by the first call after a clear that ran while
\* the key's calls were being denied
C5_Witness ==
    \E k \in Keys :
        win[k].open /\ win[k].afterClear = "denied" /\ win[k].calls = 1

(***************************************************************************)
(* Request dispatchers: properties                                         *)
(***************************************************************************)
\* the settled call failed with an HTTP error response
FailedWithResponse ==
    dPc = "settled" /\ dOutcome.state = "rejected" /\ dError.response

\* the timeout the settled call ran with
CallTimeout == getApiSettings(dCall.apiConfig).timeout

\* C8: a dispatch called without an apiConfig hands no request to axios, is
\* rejected with the 'Missing API configuration' error and, when a node is
\* given, has set the error status 'no config' and logged that error.
C8_NoConfigFailsFast ==
    (dPc = "settled" /\ ~dCall.apiConfig.present)
        => /\ dHttp = 0
           /\ dOutcome = [state |-> "rejected",
                          message |-> "Missing API configuration. Please configure mv-config node."]
           /\ dCall.node =>
                  /\ dStatus = [fill |-> "red", shape |-> "dot", text |-> "no config"]
                  /\ dErrors = <<"Missing API configuration. Please configure mv-config node.">>

\* C8 witness: callCameraAPI, called with a node and no apiConfig, has settled
C8_Witness ==
    /\ dPc = "settled"
    /\ ~dCall.apiConfig.present
    /\ dCall.api = "camera"
    /\ dCall.node

\* the status label the claim gives for HTTP status s
LabelFor(s) ==
    IF s = 404 THEN "not found"
    ELSE IF s = 400 THEN "invalid request"
    ELSE IF s = 401 \/ s = 403 THEN "auth error"
    ELSE IF s >= 500 THEN "server error"
    ELSE "error " \o ToString(s)

\* the message the claim gives for HTTP status s and detail text
MessageFor(s, detail) ==
    IF s = 404 THEN "Not found: " \o detail
    ELSE IF s = 400 THEN "Invalid request: " \o detail
    ELSE IF s = 401 \/ s = 403 THEN "Authentication error: " \o detail
    ELSE IF s >= 500 THEN "Server error: " \o detail
    ELSE "API error (" \o ToString(s) \o "): " \o detail

\* the classification of the settled call is the claim's table for the detail
\* text given, whichever dispatcher made the call, and callVisionAPI's catch
\* block agrees with the pair extractErrorMessage / getStatusMessage
ClassifiedAs(detail) ==
    /\ dCall.node =>
           /\ dStatus = [fill |-> "red", shape |-> "dot", text |-> LabelFor(dError.status)]
           /\ dErrors = <<MessageFor(dError.status, detail)>>
    /\ dCall.done =>
           dDone = <<[error |-> TRUE, message |-> MessageFor(dError.status, detail)]>>
    /\ callVisionAPI_classify(dError, Url(dCall), CallTimeout)
           = [errorMessage |-> extractErrorMessage(dError, Url(dCall), CallTimeout),
              statusMessage |-> getStatusMessage(dError)]

\* C9 (as claimed): every HTTP error response is classified by the table, with
\* <detail> the body's detail field when present and the reason phrase otherwise.
C9_ClassifiedByTable_Claimed ==
    FailedWithResponse
        => ClassifiedAs(IF dError.detail.present
                        THEN dError.detail.value
                        ELSE dError.statusText)

\* C9 (amended): every HTTP error response is classified by the table, with
\* <detail> the body's detail field when it is present and not empty (truthy),
\* and the reason phrase otherwise; both classifications agree for every status.
C9_ClassifiedByTable ==
    FailedWithResponse
        => ClassifiedAs(IF dError.detail.present /\ dError.detail.value # ""
                        THEN dError.detail.value
                        ELSE dError.statusText)

\* C9 witness: callImageAPI has classified a 403 whose body carries a detail
C9_Witness ==
    /\ FailedWithResponse
    /\ dCall.api = "image"
    /\ dCall.node
    /\ dError.status = 403
    /\ dError.detail = [present |-> TRUE, value |-> "Template not found"]
    /\ dErrors = <<"Authentication error: Template not found">>

\* C10 (as claimed): an error with a request, no response and code ECONNABORTED
\* is classified as a timeout.
C10_TimeoutClassified ==
    (/\ dPc = "settled"
     /\ dOutcome.state = "rejected"
     /\ ~dError.response
     /\ dError.request
     /\ dError.code = "ECONNABORTED"
     /\ dCall.node)
        => /\ dStatus = [fill |-> "red", shape |-> "dot", text |-> "timeout"]
           /\ dErrors = <<"Timeout: Request took longer than "
                              \o ToString(CallTimeout) \o "ms">>

\* the classification of the error the settled call failed with
Classified == Classify(dCall.api, dError, Url(dCall), CallTimeout)

\* C11: when a dispatch fails after the request was attempted, the status shows
\* the classified label, the classified message went to node.error, and the
\* error delivered to the caller, by done and by the rejection alike, is the
\* classified error (its message is the classified message, detail included).
C11_ClassifiedErrorDelivered ==
    (dPc = "settled" /\ dOutcome.state = "rejected" /\ dHttp = 1)
        => /\ dCall.node =>
                  /\ dStatus = [fill |-> "red", shape |-> "dot",
                                text |-> Classified.statusMessage]
                  /\ dErrors = <<Classified.errorMessage>>
           /\ dCall.done =>
                  dDone = <<[error |-> TRUE, message |-> Classified.errorMessage]>>
           /\ dOutcome.message = Classified.errorMessage

(***************************************************************************)
(* Vision nodes: properties                                                *)
(***************************************************************************)
\* the node has finished an input whose request the backend answered 2xx
Answered == nPc = "finished" /\ nPath = "response"

\* C6: when the backend answers template-match, edge-detect or aruco-detect
\* with an objects array of length N >= 1, the node has sent exactly N messages,
\* the i-th carrying the VisionObject built from objects[i], and has called
\* done once, without an error.
C6_OneMessagePerObjectInOrder ==
    (/\ Answered
     /\ nNode.type \in {"template-match", "edge-detect", "aruco-detect"}
     /\ ~NoObjects(nResult))
        => /\ Len(nSent) = Len(nResult.objects.v)
           /\ \A i \in 1..Len(nResult.objects.v) :
                  /\ i <= Len(nSent)
                  /\ nSent[i].payload =
                         createVisionObjectMessage(nResult.objects.v[i], getImageId(nMsg),
                             getTimestamp(nMsg), nResult.thumbnail_base64, nMsg).payload
           /\ nDone = <<[error |-> FALSE, message |-> ""]>>

\* C7: when the backend answers any vision node with no detections (objects
\* missing or empty), the node has sent nothing, shows the no-results status
\* and has called done once, without an error.
C7_SilentOnZeroDetections ==
    (Answered /\ NoObjects(nResult))
        => /\ nSent = <<>>
           /\ nStatus.fill = "yellow"
           /\ nStatus.shape = "ring"
           /\ nDone = <<[error |-> FALSE, message |-> ""]>>

\* the optional fields of a VisionObject
OptionalFields == {"area", "perimeter", "rotation", "contour"}

\* C12: in every message built by createVisionObjectMessage, each of area,
\* perimeter, rotation and contour is a key of the payload exactly when the raw
\* object has it set (neither missing nor null), and then has the source value.
C12_OptionalFieldsOmittedNotNull ==
    (Answered /\ nNode.type # "rotation-detect")
        => \A i \in 1..Len(nSent) :
               \A f \in OptionalFields :
                   /\ (f \in DOMAIN nSent[i].payload) <=> IsSet(nResult.objects.v[i][f])
                   /\ (f \in DOMAIN nSent[i].payload)
                          => nSent[i].payload[f] = nResult.objects.v[i][f].v

\* C12 witness: edge-detect has sent the messages of a contour whose area is null
\* and rotation is set, and of one whose area is missing and rotation is null
C12_Witness ==
    /\ Answered
    /\ nNode.type = "edge-detect"
    /\ Len(nSent) = 2
    /\ nResult.objects.v[1].area = Null
    /\ nResult.objects.v[1].rotation = Value(-170)
    /\ "area" \notin DOMAIN nSent[1].payload
    /\ nSent[1].payload.rotation = -170
    /\ nResult.objects.v[2].area = Undefined
    /\ nResult.objects.v[2].rotation = Null
    /\ DOMAIN nSent[2].payload \cap OptionalFields = {"perimeter", "contour"}

\* the message being handled has no image id, at the root or in the payload
NoImageId == nMsg.image_id = "" /\ nMsg.payload_image_id = ""

\* the handler has ended without a request and without a message, with the
\* error status `text' and one done call carrying the error `message'
RefusedWith(message, text) ==
    /\ nHttp = 0
    /\ nSent = <<>>
    /\ nStatus = [fill |-> "red", shape |-> "dot", text |-> text]
    /\ nDone = <<[error |-> TRUE, message |-> message]>>

\* C17: a vision node that has handled a message without an image id has made
\* no request, sent nothing, set an error status and called done with the
\* 'No image_id' error; template-match does the same with 'No template_id'
\* when the message has an image id but no template id is given or configured.
C17_MissingIdentifiersRefused ==
    nPc = "finished"
        => /\ NoImageId => RefusedWith("No image_id provided", "missing image_id")
           /\ (/\ ~NoImageId
               /\ nNode.type = "template-match"
               /\ nMsg.templateId = ""
               /\ nNode.templateId = "")
                  => RefusedWith("No template_id configured", "missing template")

\* C17 witness: template-match has refused a message that has an image id in
\* its payload only, no template id being given or configured
C17_Witness ==
    /\ nPc = "finished"
    /\ nNode.type = "template-match"
    /\ nMsg.image_id = ""
    /\ nMsg.payload_image_id # ""
    /\ nMsg.templateId = ""
    /\ nNode.templateId = ""
    /\ nDone = <<[error |-> TRUE, message |-> "No template_id configured"]>>

(***************************************************************************)
(* Pure utilities: properties                                              *)
(***************************************************************************)
\* validateROI has returned from a call on a ROI object whose four fields are numbers
ReturnedNumericRoi ==
    /\ uPc = "returned"
    /\ uCall.fn = "validateROI"
    /\ uCall.roi.kind = "object"
    /\ \A f \in {uCall.roi.x, uCall.roi.y, uCall.roi.width, uCall.roi.height} :
           f.kind = "number"

\* the comparisons of the claim on a number: a >= 0, a > 0, a < 0, a <= 0
IsNonNegative(a) == ~a.nan /\ a.n >= 0

IsPositive(a) == ~a.nan /\ a.n > 0

\* C13: on a ROI with numeric fields, validateROI without max options returns
\* valid exactly when x >= 0, y >= 0, width > 0 and height > 0; a negative x or
\* y gives the 'non-negative' error, otherwise a width or height <= 0 gives the
\* 'positive' error; a supplied maximum that is exceeded gives 'exceeds maximum'.
C13_RoiValidExactlyWhenInRange ==
    ReturnedNumericRoi
        => LET roi == uCall.roi
               options == uCall.options
               noMax == options.maxWidth = Undefined /\ options.maxHeight = Undefined
               inRange == /\ IsNonNegative(roi.x) /\ IsNonNegative(roi.y)
                          /\ IsPositive(roi.width) /\ IsPositive(roi.height)
               negativeXY == JsLess(roi.x, Num(0)) \/ JsLess(roi.y, Num(0))
               sideNotPositive == \/ JsLessEq(roi.width, Num(0))
                                  \/ JsLessEq(roi.height, Num(0))
               widthExceeds == /\ JsTruthy(options.maxWidth)
                               /\ JsGreater(roi.width, options.maxWidth)
               heightExceeds == /\ JsTruthy(options.maxHeight)
                                /\ JsGreater(roi.height, options.maxHeight)
           IN  /\ noMax => (uResult.valid <=> inRange)
               /\ negativeXY
                      => uResult = [valid |-> FALSE,
                                    error |-> "ROI x and y must be non-negative"]
               /\ (~negativeXY /\ sideNotPositive)
                      => uResult = [valid |-> FALSE,
                                    error |-> "ROI width and height must be positive"]
               /\ (inRange /\ widthExceeds)
                      => uResult = [valid |-> FALSE,
                                    error |-> "ROI width exceeds maximum ("
                                                \o ToString(options.maxWidth.n) \o ")"]
               /\ (inRange /\ ~widthExceeds /\ heightExceeds)
                      => uResult = [valid |-> FALSE,
                                    error |-> "ROI height exceeds maximum ("
                                                \o ToString(options.maxHeight.n) \o ")"]

\* validateImageId has returned from a call on a string
ReturnedStringId ==
    /\ uPc = "returned"
    /\ uCall.fn = "validateImageId"
    /\ uCall.imageId.kind = "string"

\* the id contains '..', '/' or '\'
HasTraversal(id) ==
    \/ \E i \in 1..Len(id.chars) : id.chars[i] \in {"/", "\\"}
    \/ \E i \in 1..Len(id.chars) - 1 : <<id.chars[i], id.chars[i + 1]>> = <<".", ".">>

\* the id matches ^[A-Za-z0-9_-]{1,255}$
MatchesIdPattern(id) ==
    /\ {id.chars[i] : i \in 1..Len(id.chars)} \subseteq {"a", "Z", "7", "_", "-"}
    /\ Len(id.chars) + id.pad \in 1..255

\* C14: an id containing '..', '/' or '\' is invalid with the path traversal
\* error; an id matching ^[A-Za-z0-9_-]{1,255}$ is valid with sanitized equal
\* to the id; no string is valid unless it matches that pattern.
C14_ImageIdValidation ==
    ReturnedStringId
        => /\ HasTraversal(uCall.imageId)
                  => uResult = [valid |-> FALSE,
                                error |-> "Image ID contains invalid characters (path traversal attempt)"]
           /\ MatchesIdPattern(uCall.imageId)
                  => uResult = [valid |-> TRUE, sanitized |-> uCall.imageId]
           /\ uResult.valid => MatchesIdPattern(uCall.imageId)

\* C14 witness: an id of 255 characters of the class has been accepted
C14_Witness ==
    /\ ReturnedStringId
    /\ uCall.imageId.chars = <<"Z">>
    /\ uCall.imageId.pad = 254
    /\ uResult = [valid |-> TRUE, sanitized |-> uCall.imageId]

\* buildEdgeDetectParams has returned
ReturnedEdgeParams ==
    uPc = "returned" /\ uCall.fn = "buildEdgeDetectParams"

\* the output field of each integer setting
OutputField(f) ==
    CASE f = "cannyLow" -> "canny_low"
      [] f = "cannyHigh" -> "canny_high"
      [] f = "sobelThreshold" -> "sobel_threshold"
      [] f = "laplacianThreshold" -> "laplacian_threshold"
      [] f = "minContourArea" -> "min_contour_area"
      [] f = "maxContourArea" -> "max_contour_area"
      [] f = "maxContours" -> "max_contours"
      [] OTHER -> "blur_kernel"

\* the default of each integer setting: the entry of the constants table, and
\* for blurKernel, whose entry is 0, the 5 that replaces it
DocumentedDefault(f) ==
    CASE f = "cannyLow" -> 50
      [] f = "cannyHigh" -> 150
      [] f = "sobelThreshold" -> 50
      [] f = "laplacianThreshold" -> 50
      [] f = "minContourArea" -> 10
      [] f = "maxContourArea" -> 100000
      [] f = "maxContours" -> 20
      [] OTHER -> 5

\* the input is the whole number n or its decimal string
IsInteger(v, n) == v = [kind |-> "number", nan |-> FALSE, n |-> n]
                   \/ v = [kind |-> "string", s |-> ToString(n)]

\* C15: for every integer setting of every config, an integer or decimal-string
\* input v gives the output field the value v, and a missing or non-numeric
\* input gives it the documented default; no field is NaN.
C15_IntegerFieldsCoerced ==
    ReturnedEdgeParams
        => \A f \in {"cannyLow", "cannyHigh", "sobelThreshold", "laplacianThreshold",
                     "minContourArea", "maxContourArea", "maxContours", "blurKernel"} :
               /\ \A n \in 0..MaxParam :
                      IsInteger(uCall.config[f], n) => uResult[OutputField(f)] = n
               /\ uCall.config[f] \in {[kind |-> "undefined"], [kind |-> "string", s |-> "abc"]}
                      => uResult[OutputField(f)] = DocumentedDefault(f)

C18_StatusClearedAfterClose ==
    cClose = "closed" => cStatus = StatusNone

\* the positions of the trace at which an attempt begins
AttemptsBegun == {i \in 1..Len(cTrace) : cTrace[i].event = "attempt"}

\* C19: the bootstrap makes at most maxRetries attempts, numbered 1, 2, ... in
\* order, every attempt after the first begins after the retry delay that
\* followed the attempt before it, and no attempt follows a successful connect.
C19_BoundedSequentialRetry ==
    /\ Cardinality(AttemptsBegun) <= MAX_ATTEMPTS
    /\ \A i \in AttemptsBegun :
           /\ cTrace[i].n = Cardinality({j \in AttemptsBegun : j <= i})
           /\ i > 1 => cTrace[i - 1] = DelayWaited(DELAY_MS)
    /\ \A i \in 1..Len(cTrace) : cTrace[i].event = "connected" => i = Len(cTrace)

\* the bootstrap, once started, ends whatever the replies are
BootstrapTerminates ==
    (cPc \in {"health", "connect", "delay"}) ~> (cPc = "ended")

\* the bootstrap has ended and none of its attempts connected
GaveUp ==
    /\ cPc = "ended"
    /\ \A i \in 1..Len(cTrace) : cTrace[i].event # "connected"

\* C20: when the bootstrap has ended without a successful connect, nothing
\* was handed to node.error and the status is ready.
C20_SilentGiveUp ==
    GaveUp => /\ cErrors = <<>>
              /\ cStatus = setNodeStatus("ready", "", <<>>)

(***************************************************************************)
(* Image simulator node: properties                                        *)
(***************************************************************************)
\* C21: at most one auto-trigger timer is active at any time, and while the
\* last handler that ran is a `stop' input or close no timer is active and
\* node.intervalId is null.
C21_AtMostOneTimer ==
    /\ Cardinality(sTimers) <= 1
    /\ sLast \in {"stop", "close"} => sTimers = {} /\ sIntervalId = 0

\* a `start' input arrived while the constructor's timer was running, and a
\* later `stop' cleared that timer
C21_Witness ==
    /\ sNode.autoTrigger
    /\ sCreated = 1
    /\ sCaptures >= 2
    /\ sLast = "stop"
    /\ sTimers = {}

(***************************************************************************)
(* Live preview node: properties                                           *)
(***************************************************************************)
\* C22: every state message sent with streaming true carries the stream URL
\* of the camera_id of that same message, and every message sent with
\* streaming false carries no stream URL.
C22_StateMessagesConsistent ==
    \A i \in 1..Len(lSent) :
        IF lSent[i].streaming
        THEN lSent[i].stream_url = StreamUrlOf(lSent[i].camera_id)
        ELSE lSent[i].stream_url = ""

\* C27: streamUrl is null whenever streamActive is false, and is the stream
\* URL of node.cameraId whenever streamActive is true.
C27_StreamFieldsConsistent ==
    IF lStreamActive
    THEN lStreamUrl = StreamUrlOf(lCameraId)
    ELSE lStreamUrl = ""

\* C28: once the close handler has run, no step sends a state message and no
\* step sets streamActive to true.
C28_QuietAfterClose ==
    [][lPc = "closed" => /\ lSent' = lSent
                         /\ lStreamActive' => lStreamActive]_vars

(***************************************************************************)
(* ROI extract node: properties                                            *)
(***************************************************************************)
\* the ROI is a box of numbers with x >= 0, y >= 0, width > 0, height > 0
RoiInRange(roi) ==
    /\ \A f \in {"x", "y", "width", "height"} : roi[f].kind = "number" /\ ~roi[f].nan
    /\ roi.x.n >= 0
    /\ roi.y.n >= 0
    /\ roi.width.n > 0
    /\ roi.height.n > 0

\* C23: every request sent carries an image id accepted by validateImageId
\* and an ROI accepted by validateROI, that is with x >= 0, y >= 0, width > 0
\* and height > 0; and an input that fails a validation sends no request and
\* no message, and done receives the validation error.
C23_RequestOnlyAfterValidation ==
    /\ \A i \in 1..Len(rRequests) :
           /\ validateImageId(rRequests[i].image_id).valid
           /\ validateROI(rRequests[i].roi, NoRoiOptions).valid
           /\ RoiInRange(rRequests[i].roi)
    /\ (/\ rPc = "finished"
        /\ rMsg.payload
        /\ ~IdIsFalsy(rMsg.image_id)
        /\ \/ ~validateImageId(rMsg.image_id).valid
           \/ ~validateROI(bounding_box(rNode, rMsg), NoRoiOptions).valid)
       => /\ rRequests = <<>>
          /\ rSent = 0
          /\ rDone = <<DoneError(IF ~validateImageId(rMsg.image_id).valid
                                 THEN validateImageId(rMsg.image_id).error
                                 ELSE validateROI(bounding_box(rNode, rMsg), NoRoiOptions).error)>>

(***************************************************************************)
(* Concurrent dispatches: properties                                       *)
(***************************************************************************)
\* C24: with several dispatches in flight (same node or different nodes) and
\* responses arriving in any order, the messages of one response are emitted
\* contiguously and in that response's array order: two messages of one
\* dispatch that follow each other in the output carry successive indices,
\* and no message of another dispatch stands between two of the same dispatch.
C24_ResponsesNeverInterleave ==
    \A a, b \in 1..Len(eOut) :
        (a < b /\ eOut[a].id = eOut[b].id) =>
            /\ eOut[b].index = eOut[a].index + (b - a)
            /\ \A m \in a..b : eOut[m].id = eOut[a].id

\* two dispatches of the same node in flight together, answered in the reverse
\* order, each with two objects, and a third of the other node answered last
C24_Witness ==
    /\ Len(eOut) = 5
    /\ eOut[1] = [id |-> 2, node |-> 1, index |-> 1]
    /\ eOut[2] = [id |-> 2, node |-> 1, index |-> 2]
    /\ eOut[3] = [id |-> 1, node |-> 1, index |-> 1]
    /\ eOut[4] = [id |-> 1, node |-> 1, index |-> 2]
    /\ eOut[5] = [id |-> 3, node |-> 2, index |-> 1]
    /\ eInFlight = {}

\* C25: with inputs handled one at a time, a node that has finished handling
\* an input (done has been called) shows the status of that input's outcome:
\* the error status when done received an error, the success status when
\* messages were sent, the no-results status otherwise; it never still shows
\* the in-flight 'processing...' status.
C25_StatusReflectsOutcome ==
    (nPc = "finished" /\ nDone # <<>>) =>
        /\ nStatus # setNodeStatus("processing", "", <<>>)
        /\ nStatus.fill =
               IF \E i \in 1..Len(nDone) : nDone[i].error THEN "red"
               ELSE IF nSent # <<>> THEN "green"
               ELSE "yellow"

\* C26: for every message a vision node has finished handling, done has been
\* called exactly once, whatever the path: validation failure, missing config,
\* success, zero results, HTTP error response, network error or timeout.
C26_DoneExactlyOnce ==
    nPc = "finished" => Len(nDone) = 1

\* an edge-detect node has been constructed and has built its params both ways
BuiltEdgeNodeParams ==
    uPc = "returned" /\ uCall.fn = "edge-detect"

\* C29: for every node configuration (each setting missing, an integer, a
\* numeric string or a non-numeric string), the params the refactored
\* edge-detect node builds through buildEdgeDetectParams equal, field by field,
\* the params the original node builds inline.
C29_RefactoredParamsEqualOriginal ==
    BuiltEdgeNodeParams =>
        /\ DOMAIN uResult.refactored = DOMAIN uResult.original
        /\ \A f \in DOMAIN uResult.original : uResult.refactored[f] = uResult.original[f]

(***************************************************************************)
(* rotation-detect normalisation: properties                               *)
(***************************************************************************)
\* the relative rotation lies in the range of the angleRange setting
InConfiguredRange(range, a) ==
    CASE range = "0_360" -> 0 <= a /\ a < 360
      [] range = "-180_180" -> 0 - 180 <= a /\ a <= 180
      [] OTHER -> 0 <= a /\ a < 180

\* what the sent payload holds: with a numeric reference, a rotation_relative
\* congruent to r - q modulo the period and in the configured range; without
\* one, no rotation_relative key
SentRelativeRotation ==
    gPc = "sent" =>
        IF HasNumericReference(gReference)
        THEN /\ DOMAIN gPayload = {"rotation", "rotation_relative"}
             /\ gPayload.rotation_relative.class = "exact"
             /\ gRotation.class = "exact"
             /\ InConfiguredRange(gRange, gPayload.rotation_relative.n)
             /\ (gPayload.rotation_relative.n
                   - (gRotation.n - gReference.rotation.n)) % Period(gRange) = 0
        ELSE DOMAIN gPayload = {"rotation"}

\* C30: for every finite detected rotation r and numeric reference rotation q
\* the normalisation loops terminate, and the rotation_relative that is sent
\* is congruent to r - q modulo the period and lies in the configured range
\* ([0, 360), [-180, 180] or [0, 180)); without a numeric
\* reference_object.rotation no rotation_relative key is sent.
C30_NormalizationTerminatesInRange ==
    /\ [](SentRelativeRotation)
    /\ (gPc \in {"raise", "lower"}) ~> (gPc = "sent")

====
